---- MODULE Spec2Model ----
(***************************************************************************)
(* Model of the MCP router: the Connection Manager (ClientManager), the    *)
(* downstream tool registry (serverManagement) and the multi-instance      *)
(* sync engine (SyncService), as state machines over one shared store.     *)
(*                                                                         *)
(* Every asynchronous operation is cut at the awaits where another         *)
(* operation of the same process can run: an operation in flight is a      *)
(* task record with a program counter.                                     *)
(***************************************************************************)
EXTENDS Integers, Sequences, FiniteSets, TLC

(* ---------------- bounds of the model ---------------- *)
MaxOps == 3
MaxTasks == 2
MaxPolls == 2
MaxSyncOps == 2
maxConsecutivePingFailures == 2

(* ---------------- program constants ---------------- *)
pingIntervalSec == 30

toolNameSeparator == <<"-", "-", ">">>

(* ---------------- names, as sequences of characters ---------------- *)
SrvA == <<"a">>
SrvB == <<"b">>
Names == {SrvA, SrvB}

Url1 == "http://u:1/mcp"
Url2 == "http://u:2/mcp"
Urls == {Url1, Url2}

ToolAdd == <<"a", "d", "d">>
ToolStats == <<"s", "t", "a", "t", "s">>
ToolQuote == <<"q", "u", "o", "t", "e">>
OrigTools == {ToolAdd, ToolStats, ToolQuote}

Instances == {1, 2}
TaskIds == 1..MaxTasks

(* ---------------- pure helpers ---------------- *)

\* s.startsWith(p)
StartsWith(s, p) ==
  /\ Len(p) <= Len(s)
  /\ SubSeq(s, 1, Len(p)) = p

\* s.indexOf(p): 0-based index of the first occurrence, -1 when absent
IndexOf(s, p) ==
  LET hits == {k \in 0..(Len(s) - Len(p)) : SubSeq(s, k + 1, k + Len(p)) = p}
  IN IF hits = {} THEN -1 ELSE CHOOSE k \in hits : \A j \in hits : k <= j

\* `${serverId}${this.toolNameSeparator}${tool.name}`
AggregatedName(serverId, toolName) == serverId \o toolNameSeparator \o toolName

\* Map.set / Map.delete on a map held as a function with a partial domain
MapSet(m, k, v) == [x \in (DOMAIN m) \cup {k} |-> IF x = k THEN v ELSE m[x]]
MapDelete(m, k) == [x \in (DOMAIN m) \ {k} |-> m[x]]

EmptyMap == [x \in {} |-> TRUE]

NoUrl == "none"

VARIABLES
  up,          \* up[s]: upstream s answers connect / listTools / ping / callTool
  utools,      \* utools[s]: original tool names upstream s lists
  rows,        \* servers table: name -> row
  events,      \* sync_events table, in created_at order
  conns,       \* conns[i]: ClientManager.connections of instance i, name -> object
  objs,        \* objs[i]: the ClientConnection objects of instance i, by identity
  cfg,         \* cfg[i]: RouterConfig.servers of instance i, name -> url
  registered,  \* registered[i]: keys of registeredTools (downstream catalog)
  pingTimer,   \* pingTimer[i]: the health interval is set
  syncOn,      \* syncOn[i]: the instance was started with a SyncService
  tasks,       \* tasks[i][t]: operation in flight on instance i
  health,      \* health[i]: per-connection chains of the running pingAllServers;
               \* gap: seconds since the previous reconnect attempt of the loop
  ops,         \* number of API commands issued so far
  auditQ,      \* auditQ[i]: records pushed to AuditLogger.batchQueue
  eventQ,      \* eventQ[i]: server events pushed to EventLogger.batchQueue
  lastCall,    \* outcome of the last finished callTool
  lastTry,     \* lastTry[i][s]: seconds since the last health-loop reconnect
  polls,       \* polls[i][p]: a run of processUnprocessedEvents in flight
  recon,       \* recon[i]: the run of syncExistingServers in flight
  applied,     \* applied[i]: ids of the events whose side effect instance i ran, in order
  lastReconnect, \* outcome of the last finished reconnect-server command
  registeredTools, \* serverManagement.registeredTools: name -> RegisteredTool handle
  toolHandlers,    \* serverManagement.toolHandlers: name -> current handler
  serverTools,     \* McpServer._registeredTools: the downstream catalog
  listChanged,     \* tools/list_changed notifications sent downstream
  separator,       \* config.toolNameSeparator of the running router
  lastResult,      \* what the last registry command or tool invocation returned
  credit,          \* the run of CreditManager.executeWithCreditCheck in flight or finished
  lastRegister, \* what the last register command answered
  lifecycle, \* the process of instance 1: position of gracefulShutdown, the sync intervals, the store
  writers, \* writers[l]: batchQueue, batchTimer and the flushes in flight of AuditLogger and EventLogger
  upserted, \* the row the last ServerRepository.upsert call returned, and the row it found
  routing  \* a ClientManager built with some separator: its servers and where its last callTool went

envVars == <<up, utools>>
storeVars == <<rows, events>>
cmVars == <<conns, objs, cfg, registered, pingTimer>>
histVars == <<auditQ, eventQ, lastCall, lastTry, applied>>
syncVars == <<polls, recon>>
regVars == <<registeredTools, toolHandlers, serverTools, listChanged, separator,
            lastResult>>
auxVars == <<syncOn, lastReconnect, regVars, credit, lastRegister, lifecycle, writers, upserted, routing>>

vars == <<up, utools, rows, events, conns, objs, cfg, registered, pingTimer,
          syncOn, tasks, health, ops, auditQ, eventQ, lastCall, lastTry,
          polls, recon, applied, lastReconnect,
          registeredTools, toolHandlers, serverTools, listChanged, separator,
          lastResult, credit, lastRegister, lifecycle, writers, upserted, routing>>

(* ---------------- the store ---------------- *)

\* a row of the servers table; name is UNIQUE, so the table holds at most
\* one row per name. present: the row exists; deleted: deleted_at is set.
\* A row that is absent keeps the last id given under its name, so that ids
\* are never given twice
NoRow == [present |-> FALSE, enabled |-> FALSE, url |-> NoUrl, id |-> 0,
          deleted |-> FALSE]

\* the id an INSERT gives to a new row: one never given before
newRowId(rws) ==
  1 + (CHOOSE m \in {rws[s].id : s \in Names} : \A s \in Names : rws[s].id <= m)

\* an upsert that replaces the row of the name by a newly inserted one
upsertReinserts(rws, name, url, enabled) ==
  [rws EXCEPT ![name] = [present |-> TRUE, enabled |-> enabled, url |-> url,
                         id |-> IF rws[name].present
                                  THEN newRowId(rws) + Cardinality(Names)
                                  ELSE newRowId(rws),
                         deleted |-> FALSE]]

\* an upsert whose DO UPDATE leaves deleted_at as it is
upsertKeepsDeleted(rws, name, url, enabled) ==
  [rws EXCEPT ![name] = [present |-> TRUE, enabled |-> enabled, url |-> url,
                         id |-> IF rws[name].present
                                  THEN rws[name].id
                                  ELSE newRowId(rws),
                         deleted |-> rws[name].present /\ rws[name].deleted]]

\* ServerRepository.upsert: INSERT ... ON CONFLICT (name) DO UPDATE keeps the
\* row of the name, and with it the id, and clears deleted_at
upsert(rws, name, url, enabled) ==
  [rws EXCEPT ![name] = [present |-> TRUE, enabled |-> enabled, url |-> url,
                         id |-> IF rws[name].present
                                  THEN rws[name].id
                                  ELSE newRowId(rws),
                         deleted |-> FALSE]]

\* ServerRepository.setEnabled: UPDATE ... WHERE name = $1 AND deleted_at IS NULL
setEnabled(rws, name, enabled) ==
  IF rws[name].present /\ ~rws[name].deleted
    THEN [rws EXCEPT ![name].enabled = enabled]
    ELSE rws

\* ServerRepository.delete: UPDATE servers SET deleted_at = NOW()
\* WHERE id = $1 AND deleted_at IS NULL
softDelete(rws, name) ==
  IF rws[name].present /\ ~rws[name].deleted
    THEN [rws EXCEPT ![name].deleted = TRUE]
    ELSE rws

\* ServerRepository.hardDelete: DELETE FROM servers WHERE id = $1
hardDelete(rws, name) ==
  [rws EXCEPT ![name] = [NoRow EXCEPT !.id = rws[name].id]]

\* SyncService.publishEvent: INSERT INTO sync_events
publishEvent(evs, i, type, name, url, auto) ==
  Append(evs, [id |-> Len(evs) + 1, type |-> type, name |-> name, url |-> url,
               auto |-> auto, pub |-> i, by |-> <<>>, age |-> 0, deleted |-> FALSE])

\* `if (syncService) { await syncService.publishEvent(...) }`
publishIfSync(evs, i, type, name, url, auto) ==
  IF syncOn[i] THEN publishEvent(evs, i, type, name, url, auto) ELSE evs

(* ---------------- connection objects ---------------- *)

\* the identity given to the next ClientConnection object of an instance
FreshId(o) == CHOOSE k \in 1..(Cardinality(DOMAIN o) + 1) : k \notin DOMAIN o

IdleTask == [kind |-> "idle", pc |-> "idle", name |-> SrvA, url |-> NoUrl,
             auto |-> TRUE, upd |-> FALSE, cid |-> 0, tool |-> <<>>]

\* objects still referenced, or holding an open transport, stay in the heap
Referenced(c, tk, h, pl, rc) ==
  {c[s] : s \in DOMAIN c}
    \cup {tk[t].cid : t \in TaskIds}
    \cup {h[s].cid : s \in DOMAIN h}
    \cup {pl[p].cid : p \in DOMAIN pl}
    \cup {rc.cid}

Collect(o, refs) ==
  [k \in {x \in DOMAIN o : o[x].live \/ x \in refs} |-> o[k]]

\* the aggregated tools built by loadServerTools from a listTools answer
aggregatedTools(serverId, listed) ==
  {AggregatedName(serverId, t) : t \in listed}

\* ClientManager.loadServerTools on connection object c, given whether the
\* upstream answers listTools and what it lists
loadServerTools(c, answers, listed) ==
  IF ~c.connected
    THEN c
    ELSE IF answers /\ c.live
      THEN [c EXCEPT !.tools = aggregatedTools(c.name, listed),
                     !.toolsCount = Cardinality(aggregatedTools(c.name, listed))]
      ELSE [c EXCEPT !.lastError = "load"]

\* newConnection whose catch branch stores no lastError
newConnectionNoError(name, url, auto, ok) ==
  [name |-> name, url |-> url, auto |-> auto, connected |-> ok, live |-> ok,
   tools |-> {}, toolsCount |-> 0, failures |-> 0,
   lastError |-> "none", errN |-> 0]

\* newConnection whose stub does not keep the autoReconnect of the config
newConnectionStubNoAuto(name, url, auto, ok) ==
  [name |-> name, url |-> url, auto |-> ok /\ auto, connected |-> ok, live |-> ok,
   tools |-> {}, toolsCount |-> 0, failures |-> 0,
   lastError |-> IF ok THEN "none" ELSE "connect", errN |-> 0]

\* the ClientConnection stored by connectToServer: the connected one after a
\* successful client.connect, or the stub of the catch branch
newConnection(name, url, auto, ok) ==
  [name |-> name, url |-> url, auto |-> auto, connected |-> ok, live |-> ok,
   tools |-> {}, toolsCount |-> 0, failures |-> 0,
   lastError |-> IF ok THEN "none" ELSE "connect", errN |-> 0]

\* ClientManager.connectToServer from client.connect on: the object stored
connectToServer(name, url, auto) ==
  loadServerTools(newConnection(name, url, auto, up[name]), up[name], utools[name])

\* transport.close() on a captured connection object (the stub has no close)
closeTransport(o, cid) ==
  IF cid \in DOMAIN o /\ o[cid].live
    THEN [o EXCEPT ![cid].live = FALSE]
    ELSE o

\* ClientManager.getAllTools
getAllTools(i) ==
  UNION {objs[i][conns[i][s]].tools :
           s \in {x \in DOMAIN conns[i] : objs[i][conns[i][x]].connected}}

(* ---------------- tasks ---------------- *)

HasFree(i) == \E t \in TaskIds : tasks[i][t].kind = "idle"
FreeSlot(i) ==
  CHOOSE t \in TaskIds :
    /\ tasks[i][t].kind = "idle"
    /\ \A u \in TaskIds : u < t => tasks[i][u].kind # "idle"

\* the heap of instance i after a step, given the new map, tasks and chains
Heap(i, o) ==
  [objs EXCEPT ![i] =
     Collect(o, Referenced(conns'[i], tasks'[i], health'[i], polls'[i], recon'[i]))]

(* ---------------- register / unregister (serverManagement) ---------------- *)

\* registerToolsWithMcpServer: buildServerTools re-lists the tools, then every
\* tool not yet in registeredTools is registered (same schema: handler only)
registerToolsWithMcpServer(reg, c) == reg \cup c.tools

\* registerServer with config {name: s, url: u, autoReconnect: auto, enabled}
\* up to the await of client.connect; connectToServer persists the config
RegisterConfigStart(i, s, u, auto, enabled) ==
  /\ ops < MaxOps
  /\ HasFree(i)
  /\ ops' = ops + 1
  /\ LET existing == s \in DOMAIN conns[i]
         inCfg == cfg[i][s] # NoUrl
     IN IF existing /\ inCfg /\ cfg[i][s] # u
          THEN \* Name/URL conflict
               /\ lastRegister' = "conflict"
               /\ UNCHANGED <<cfg, rows, tasks>>
          ELSE IF existing /\ inCfg /\ objs[i][conns[i][s]].connected
            THEN \* already registered and connected
                 /\ lastRegister' = "already"
                 /\ UNCHANGED <<cfg, rows, tasks>>
            ELSE /\ cfg' = [cfg EXCEPT ![i][s] = u]
                 /\ UNCHANGED lastRegister
                 /\ rows' = upsert(rows, s, u, enabled)
                 /\ tasks' = [tasks EXCEPT ![i][FreeSlot(i)] =
                      [IdleTask EXCEPT !.kind = "register", !.pc = "connect",
                                       !.name = s, !.url = u, !.auto = auto,
                                       !.upd = existing]]
  /\ UNCHANGED <<envVars, events, conns, objs, registered, pingTimer, syncOn, routing, upserted, writers, lifecycle,
                 lastReconnect, regVars, credit, health, histVars, syncVars>>

\* registerServer with a config that has enabled true, the default of
\* POST /register and of the register-server tool
RegisterStart(i, s, u, auto) == RegisterConfigStart(i, s, u, auto, TRUE)

\* connectToServer of a task: client.connect answers, the connection is stored
\* and its tools are loaded
ConnectFinish(i, t) ==
  /\ tasks[i][t].pc = "connect"
  /\ LET tk == tasks[i][t]
         id == FreshId(objs[i])
         c == connectToServer(tk.name, tk.url, tk.auto)
     IN /\ conns' = [conns EXCEPT ![i] = MapSet(conns[i], tk.name, id)]
        /\ tasks' = [tasks EXCEPT ![i][t] =
             IF tk.kind = "register"
               THEN [tk EXCEPT !.pc = "tools", !.cid = 0]
               ELSE IdleTask]
        /\ UNCHANGED <<health, syncVars>>
        /\ objs' = Heap(i, MapSet(objs[i], id, c))
  /\ pingTimer' = [pingTimer EXCEPT ![i] = TRUE]
  /\ UNCHANGED <<envVars, storeVars, cfg, registered, auxVars, ops, histVars>>

\* registerServer after connectToServer: tools are registered downstream when
\* the server is connected, and the sync event is published
RegisterFinish(i, t) ==
  /\ tasks[i][t].kind = "register"
  /\ tasks[i][t].pc = "tools"
  /\ LET tk == tasks[i][t]
         s == tk.name
         there == s \in DOMAIN conns[i]
         id == IF there THEN conns[i][s] ELSE 0
         isConn == there /\ objs[i][id].connected
         c == IF isConn
                THEN loadServerTools(objs[i][id], up[s], utools[s])
                ELSE IdleTask
     IN /\ registered' = IF isConn
             THEN [registered EXCEPT ![i] = registerToolsWithMcpServer(@, c)]
             ELSE registered
        /\ tasks' = [tasks EXCEPT ![i][t] = IdleTask]
        /\ UNCHANGED <<conns, health, syncVars>>
        /\ objs' = IF isConn THEN Heap(i, [objs[i] EXCEPT ![id] = c])
                             ELSE Heap(i, objs[i])
        /\ events' = publishIfSync(events, i,
                       IF tk.upd THEN "SERVER_UPDATED" ELSE "SERVER_REGISTERED",
                       s, tk.url, tk.auto)
  \* `return { success: true, ... }`, whatever connectToServer stored
  /\ lastRegister' = "success"
  /\ UNCHANGED <<envVars, rows, cfg, pingTimer, syncOn, routing, upserted, writers, lifecycle, lastReconnect, regVars,
                 credit, ops, histVars>>

\* unregisterServer up to the await of transport.close in disconnectFromServer
UnregisterStart(i, s) ==
  /\ ops < MaxOps
  /\ HasFree(i)
  /\ ops' = ops + 1
  /\ IF s \notin DOMAIN conns[i]
       THEN \* Server not found
            UNCHANGED <<cfg, tasks, eventQ>>
       ELSE /\ cfg' = [cfg EXCEPT ![i][s] = NoUrl]
            /\ eventQ' = [eventQ EXCEPT ![i] = @ + 1]
            /\ tasks' = [tasks EXCEPT ![i][FreeSlot(i)] =
                 [IdleTask EXCEPT !.kind = "unregister", !.pc = "close",
                                  !.name = s, !.cid = conns[i][s]]]
  /\ UNCHANGED <<envVars, storeVars, conns, objs, registered, pingTimer, auxVars,
                 health, auditQ, lastCall, lastTry, applied, syncVars>>

\* disconnectFromServer from transport.close on, then the sync event
UnregisterFinish(i, t) ==
  /\ tasks[i][t].kind = "unregister"
  /\ tasks[i][t].pc = "close"
  /\ LET tk == tasks[i][t]
     IN /\ conns' = [conns EXCEPT ![i] = MapDelete(conns[i], tk.name)]
        /\ tasks' = [tasks EXCEPT ![i][t] = IdleTask]
        /\ UNCHANGED <<health, syncVars>>
        /\ objs' = Heap(i, closeTransport(objs[i], tk.cid))
        /\ rows' = setEnabled(rows, tk.name, FALSE)
        /\ events' = publishIfSync(events, i, "SERVER_UNREGISTERED", tk.name,
                                  NoUrl, TRUE)
  /\ UNCHANGED <<envVars, cfg, registered, pingTimer, auxVars, ops, histVars>>

(* ---------------- health loop (ClientManager.pingAllServers) ---------------- *)

\* lastTry: seconds since the last health-loop reconnect attempt, kept up to
\* twice the ping interval; -1 before the first attempt
Capped(t) == IF t > 2 * pingIntervalSec THEN 2 * pingIntervalSec ELSE t

\* a ping interval passes
Later(since) == IF since = -1 THEN -1 ELSE Capped(since + pingIntervalSec)

\* a pingAllServers that skips every connection that is not connected
needsReconnectNever(i) == {s \in DOMAIN conns[i] : FALSE}

\* the connections pingAllServers hands to reconnectToServer when it starts:
\* not connected, and autoReconnect not false
needsReconnect(i) ==
  {s \in DOMAIN conns[i] :
     ~objs[i][conns[i][s]].connected /\ objs[i][conns[i][s]].auto}

\* the interval fires: pingAllServers starts one chain per connection;
\* a disconnected connection with autoReconnect goes to reconnectToServer,
\* a connected one is pinged
HealthTick(i) ==
  /\ pingTimer[i]
  /\ DOMAIN health[i] = {}
  /\ LET con(s) == objs[i][conns[i][s]]
         chained == {s \in DOMAIN conns[i] : con(s).connected} \cup needsReconnect(i)
     IN /\ health' = [health EXCEPT ![i] =
             [s \in chained |->
                [pc |-> IF con(s).connected THEN "ping" ELSE "close",
                 cid |-> conns[i][s],
                 gap |-> IF con(s).connected THEN -1 ELSE Later(lastTry[i][s])]]]
        /\ lastTry' = [lastTry EXCEPT ![i] =
             [s \in Names |->
                IF s \in chained /\ ~con(s).connected
                  THEN 0
                  ELSE Later(lastTry[i][s])]]
  \* the buffers' flush timers (5 s, 10 s) ran within the ping interval
  /\ eventQ' = [eventQ EXCEPT ![i] = 0]
  /\ auditQ' = [auditQ EXCEPT ![i] = 0]
  /\ UNCHANGED <<envVars, storeVars, cmVars, auxVars, tasks, ops, lastCall,
                 applied, syncVars>>

\* the object after a successful ping
pingSucceeded(c) ==
  [c EXCEPT !.failures = 0,
            !.lastError = IF c.lastError = "ping" THEN "none" ELSE c.lastError]

\* pingFailed with the threshold test `>` in place of `>=`
pingFailedAboveThreshold(c) ==
  IF c.failures + 1 > maxConsecutivePingFailures
    THEN [c EXCEPT !.failures = c.failures + 1, !.connected = FALSE,
                   !.lastError = "ping", !.errN = c.failures + 1, !.tools = {}]
    ELSE [c EXCEPT !.failures = c.failures + 1]

\* the object after a failed ping of the health loop
pingFailed(c) ==
  IF c.failures + 1 >= maxConsecutivePingFailures
    THEN [c EXCEPT !.failures = c.failures + 1, !.connected = FALSE,
                   !.lastError = "ping", !.errN = c.failures + 1, !.tools = {}]
    ELSE [c EXCEPT !.failures = c.failures + 1]

\* client.ping() of a chain answers
HealthPing(i, s) ==
  /\ s \in DOMAIN health[i]
  /\ health[i][s].pc = "ping"
  /\ LET cid == health[i][s].cid
         c == objs[i][cid]
         ok == up[s] /\ c.live
         c2 == IF ok THEN pingSucceeded(c) ELSE pingFailed(c)
         marked == ~ok /\ ~c2.connected
         again == marked /\ c.auto /\ s \in DOMAIN conns[i]
     IN /\ health' = [health EXCEPT ![i] =
             IF again
               THEN [health[i] EXCEPT ![s] = [pc |-> "close", cid |-> conns[i][s],
                                              gap |-> lastTry[i][s]]]
               ELSE MapDelete(health[i], s)]
        /\ eventQ' = [eventQ EXCEPT ![i] = IF marked THEN @ + 1 ELSE @]
        /\ lastTry' = IF again
             THEN [lastTry EXCEPT ![i][s] = 0]
             ELSE lastTry
        /\ UNCHANGED <<conns, tasks, syncVars>>
        /\ objs' = Heap(i, [objs[i] EXCEPT ![cid] = c2])
  /\ UNCHANGED <<envVars, storeVars, cfg, registered, pingTimer, auxVars, ops,
                 auditQ, lastCall, applied>>

\* reconnectToServer of a chain: the old transport is closed, the connection
\* deleted and connectToServer persists the config
HealthClose(i, s) ==
  /\ s \in DOMAIN health[i]
  /\ health[i][s].pc = "close"
  /\ LET cid == health[i][s].cid
     IN /\ conns' = [conns EXCEPT ![i] = MapDelete(conns[i], s)]
        /\ health' = [health EXCEPT ![i][s].pc = "connect", ![i][s].gap = -1]
        /\ rows' = upsert(rows, s, objs[i][cid].url, TRUE)
        /\ UNCHANGED <<tasks, syncVars>>
        /\ objs' = Heap(i, closeTransport(objs[i], cid))
  /\ UNCHANGED <<envVars, events, cfg, registered, pingTimer, auxVars, ops, histVars>>

\* connectToServer of a chain answers
HealthConnect(i, s) ==
  /\ s \in DOMAIN health[i]
  /\ health[i][s].pc = "connect"
  /\ LET old == objs[i][health[i][s].cid]
         id == FreshId(objs[i])
     IN /\ conns' = [conns EXCEPT ![i] = MapSet(conns[i], s, id)]
        /\ health' = [health EXCEPT ![i] = MapDelete(health[i], s)]
        /\ UNCHANGED <<tasks, syncVars>>
        /\ objs' = Heap(i, MapSet(objs[i], id, connectToServer(s, old.url, old.auto)))
  /\ pingTimer' = [pingTimer EXCEPT ![i] = TRUE]
  /\ UNCHANGED <<envVars, storeVars, cfg, registered, auxVars, ops, histVars>>

\* ClientManager.pingServer
pingServer(c, ok) ==
  IF ~c.connected THEN c
  ELSE IF ok THEN [c EXCEPT !.failures = 0]
  ELSE [c EXCEPT !.failures = c.failures + 1]

PingServer(i, s) ==
  /\ ops < MaxOps
  /\ ops' = ops + 1
  /\ s \in DOMAIN conns[i]
  /\ LET cid == conns[i][s]
     IN objs' = [objs EXCEPT ![i][cid] = pingServer(@, up[s] /\ @.live)]
  /\ UNCHANGED <<envVars, storeVars, conns, cfg, registered, pingTimer, auxVars,
                 tasks, health, histVars, syncVars>>

(* ---------------- the reconnect-server command ---------------- *)

\* reconnectToServer called by the reconnect-server tool, up to the await of
\* transport.close; an unknown name raises "not found"
ReconnectStart(i, s) ==
  /\ ops < MaxOps
  /\ HasFree(i)
  /\ ops' = ops + 1
  /\ IF s \notin DOMAIN conns[i]
       THEN /\ lastReconnect' = "not_found"
            /\ UNCHANGED tasks
       ELSE /\ tasks' = [tasks EXCEPT ![i][FreeSlot(i)] =
                 [IdleTask EXCEPT !.kind = "reconnect", !.pc = "close",
                                  !.name = s, !.cid = conns[i][s],
                                  !.url = objs[i][conns[i][s]].url,
                                  !.auto = objs[i][conns[i][s]].auto]]
            /\ UNCHANGED lastReconnect
  /\ UNCHANGED <<envVars, storeVars, cmVars, syncOn, routing, upserted, writers, lifecycle, lastRegister, regVars, credit, health, histVars,
                 syncVars>>

\* the old transport is closed, the connection deleted and connectToServer
\* persists the stored config, up to the await of client.connect
ReconnectClose(i, t) ==
  /\ tasks[i][t].kind = "reconnect"
  /\ tasks[i][t].pc = "close"
  /\ LET tk == tasks[i][t]
     IN /\ conns' = [conns EXCEPT ![i] = MapDelete(conns[i], tk.name)]
        /\ tasks' = [tasks EXCEPT ![i][t].pc = "reconnect"]
        /\ rows' = upsert(rows, tk.name, tk.url, TRUE)
        /\ UNCHANGED <<health, syncVars>>
        /\ objs' = Heap(i, closeTransport(objs[i], tk.cid))
  /\ UNCHANGED <<envVars, events, cfg, registered, pingTimer, auxVars, ops, histVars>>

\* connectToServer of the command answers; the tool reports the outcome
ReconnectFinish(i, t) ==
  /\ tasks[i][t].kind = "reconnect"
  /\ tasks[i][t].pc = "reconnect"
  /\ LET tk == tasks[i][t]
         id == FreshId(objs[i])
         c == connectToServer(tk.name, tk.url, tk.auto)
     IN /\ conns' = [conns EXCEPT ![i] = MapSet(conns[i], tk.name, id)]
        /\ tasks' = [tasks EXCEPT ![i][t] = IdleTask]
        /\ lastReconnect' = IF c.connected THEN "connected" ELSE "failed"
        /\ UNCHANGED <<health, syncVars>>
        /\ objs' = Heap(i, MapSet(objs[i], id, c))
  /\ pingTimer' = [pingTimer EXCEPT ![i] = TRUE]
  /\ UNCHANGED <<envVars, storeVars, cfg, registered, syncOn, routing, upserted, writers, lifecycle, lastRegister, regVars, credit, ops,
                 histVars>>

(* ---------------- ClientManager.disconnectAll ---------------- *)

\* every transport of the map is closed by disconnectAll before its await
closeAll(o, c) ==
  [k \in DOMAIN o |->
     IF k \in {c[s] : s \in DOMAIN c} THEN [o[k] EXCEPT !.live = FALSE] ELSE o[k]]

\* disconnectAll up to the await of Promise.allSettled: the interval is
\* cleared and close is called on every connection of the map
DisconnectAllStart(i) ==
  /\ ops < MaxOps
  /\ HasFree(i)
  /\ ops' = ops + 1
  /\ pingTimer' = [pingTimer EXCEPT ![i] = FALSE]
  /\ tasks' = [tasks EXCEPT ![i][FreeSlot(i)] =
       [IdleTask EXCEPT !.kind = "disconnectAll", !.pc = "clear"]]
  /\ UNCHANGED <<conns, health, syncVars>>
  /\ objs' = Heap(i, closeAll(objs[i], conns[i]))
  /\ UNCHANGED <<envVars, storeVars, cfg, registered, auxVars, histVars>>

\* the closes have settled: connections.clear() and disconnectAll returns
DisconnectAllFinish(i, t) ==
  /\ tasks[i][t].kind = "disconnectAll"
  /\ conns' = [conns EXCEPT ![i] = EmptyMap]
  /\ tasks' = [tasks EXCEPT ![i][t] = IdleTask]
  /\ UNCHANGED <<health, syncVars>>
  /\ objs' = Heap(i, objs[i])
  /\ UNCHANGED <<envVars, storeVars, cfg, registered, pingTimer, auxVars, ops,
                 histVars>>

(* ---------------- ClientManager.callTool ---------------- *)

NoCall == [path |-> "none", audits |-> 0]

\* callTool up to the await of client.callTool
CallToolStart(i, toolName) ==
  /\ ops < MaxOps
  /\ HasFree(i)
  /\ ops' = ops + 1
  /\ LET separatorIndex == IndexOf(toolName, toolNameSeparator)
         serverName == SubSeq(toolName, 1, separatorIndex)
         actualToolName ==
           SubSeq(toolName, separatorIndex + Len(toolNameSeparator) + 1, Len(toolName))
     IN IF separatorIndex = -1
          THEN /\ lastCall' = [path |-> "no_separator", audits |-> 0]
               /\ UNCHANGED tasks
          ELSE IF serverName \notin DOMAIN conns[i]
            THEN /\ lastCall' = [path |-> "unknown_server", audits |-> 0]
                 /\ UNCHANGED tasks
            ELSE IF ~objs[i][conns[i][serverName]].connected
              THEN /\ lastCall' = [path |-> "disconnected", audits |-> 0]
                   /\ UNCHANGED tasks
              ELSE /\ tasks' = [tasks EXCEPT ![i][FreeSlot(i)] =
                        [IdleTask EXCEPT !.kind = "call", !.pc = "calling",
                                         !.name = serverName,
                                         !.tool = actualToolName,
                                         !.cid = conns[i][serverName]]]
                   /\ UNCHANGED lastCall
  /\ UNCHANGED <<envVars, storeVars, cmVars, auxVars, health, auditQ, eventQ,
                 lastTry, applied, syncVars>>

\* client.callTool answers or raises; the finally block pushes the audit record
CallToolFinish(i, t) ==
  /\ tasks[i][t].kind = "call"
  /\ LET tk == tasks[i][t]
         ok == up[tk.name] /\ tk.cid \in DOMAIN objs[i] /\ objs[i][tk.cid].live
     IN /\ auditQ' = [auditQ EXCEPT ![i] = @ + 1]
        /\ lastCall' = [path |-> IF ok THEN "success" ELSE "upstream_error",
                        audits |-> auditQ'[i] - auditQ[i]]
        /\ tasks' = [tasks EXCEPT ![i][t] = IdleTask]
        /\ UNCHANGED <<conns, health, syncVars>>
        /\ objs' = Heap(i, objs[i])
  /\ UNCHANGED <<envVars, storeVars, cfg, registered, pingTimer, auxVars, ops,
                 eventQ, lastTry, applied>>

(* ---------------- the upstreams ---------------- *)

UpstreamFlip(s) ==
  /\ up' = [up EXCEPT ![s] = ~@]
  /\ UNCHANGED <<utools, storeVars, cmVars, auxVars, tasks, health, ops, histVars,
                 syncVars>>

UpstreamRelist(s, listed) ==
  /\ listed # utools[s]
  /\ utools' = [utools EXCEPT ![s] = listed]
  /\ UNCHANGED <<up, storeVars, cmVars, auxVars, tasks, health, ops, histVars,
                 syncVars>>

(* ---------------- one instance: the Connection Manager ---------------- *)

ToolLists == {{ToolAdd}, {ToolAdd, ToolStats, ToolQuote}}

CallNames == {AggregatedName(SrvA, ToolAdd), AggregatedName(SrvB, ToolAdd), SrvA}

\* the servers an administrator registers with the instance; a call can
\* also name a server that was never registered
Registrable == {SrvA}

NoPoll == <<>>
NoRecon == [pc |-> "idle", cid |-> 0, name |-> SrvA, url |-> NoUrl, auto |-> TRUE,
            todo |-> <<>>, known |-> <<>>]

\* a text that is absent or is not JSON
NoText == [json |-> FALSE, members |-> <<>>]

\* no registry command and no tool invocation has returned yet
NoResult == [kind |-> "none", removed |-> {}, replaced |-> EmptyMap, handler |-> 0,
             text |-> NoText, structured |-> NoText]

\* the answer of POST /usage/quota before it is received
NoQuota == [answered |-> FALSE, allowed |-> FALSE,
            remainingDaily |-> 0, remainingMonthly |-> 0]

\* no run of executeWithCreditCheck yet
NoCredit == [pc |-> "idle", mode |-> "none", quota |-> NoQuota,
             quoteCalls |-> 0, toolCalls |-> 0, tracks |-> 0,
             trackSuccess |-> FALSE, trackFailed |-> FALSE,
             hasKey |-> FALSE, hasQuoteTool |-> FALSE, bypass |-> FALSE,
             quote |-> "none", validated |-> "none", quotaChecks |-> 0,
             quotaFailed |-> FALSE,
             toolResult |-> "none", outcome |-> "none", message |-> <<>>]

\* the module-level maps of serverManagement and a fresh McpServer
RegistryEmpty ==
  /\ registeredTools = EmptyMap
  /\ toolHandlers = EmptyMap
  /\ serverTools = EmptyMap
  /\ listChanged = 0
  /\ lastResult = NoResult

\* no upsert has returned yet
NoReturn == [name |-> SrvA, before |-> NoRow, row |-> NoRow]

\* no ClientManager has been built for the routing of names
NoRouting ==
  [separator |-> <<>>, servers |-> {}, tools |-> {}, toolName |-> <<>>, from |-> <<>>,
   orig |-> <<>>, found |-> FALSE, server |-> <<>>, tool |-> <<>>]

\* the two buffered writers
Loggers == {"audit", "event"}

\* a logger after construction: nothing queued, no timer, no flush in flight;
\* batchTimer tells whether the field holds a timeout handle, pending whether
\* that timeout is still to fire; stored and dropped tell where the records
\* of the settled flushes went, raised whether a call of the logger ended
\* with an exception
EmptyBuffer ==
  [batchQueue |-> <<>>, batchTimer |-> FALSE, pending |-> FALSE, flights |-> <<>>,
   last |-> 0, stored |-> {}, dropped |-> {}, raised |-> FALSE]

\* the process before a shutdown signal: SyncService.start armed its three
\* intervals when the sync service is configured, the database is connected
Running ==
  [pc |-> "running", pollInterval |-> syncOn[1], dbSyncInterval |-> syncOn[1],
   cleanupInterval |-> syncOn[1], storeOpen |-> TRUE]

Init ==
  /\ up = [s \in Names |-> TRUE]
  /\ utools \in {f \in [Names -> ToolLists] : \A s \in Names \ Registrable : f[s] = {ToolAdd}}
  /\ rows = [s \in Names |-> NoRow]
  /\ events = <<>>
  /\ conns = [i \in Instances |-> <<>>]
  /\ objs = [i \in Instances |-> <<>>]
  /\ cfg = [i \in Instances |-> [s \in Names |-> NoUrl]]
  /\ registered = [i \in Instances |-> {}]
  /\ pingTimer = [i \in Instances |-> FALSE]
  /\ syncOn = [i \in Instances |-> FALSE]
  /\ routing = NoRouting
  /\ upserted = NoReturn
  /\ writers = [l \in Loggers |-> EmptyBuffer]
  /\ lifecycle = Running
  /\ lastRegister = "none"
  /\ tasks = [i \in Instances |-> [t \in TaskIds |-> IdleTask]]
  /\ health = [i \in Instances |-> <<>>]
  /\ ops = 0
  /\ auditQ = [i \in Instances |-> 0]
  /\ eventQ = [i \in Instances |-> 0]
  /\ lastCall = NoCall
  /\ lastTry = [i \in Instances |-> [s \in Names |-> -1]]
  /\ polls = [i \in Instances |-> NoPoll]
  /\ recon = [i \in Instances |-> NoRecon]
  /\ applied = [i \in Instances |-> <<>>]
  /\ lastReconnect = "none"
  /\ RegistryEmpty
  /\ credit = NoCredit
  /\ separator = toolNameSeparator

\* the administrator issues one command at a time
Serial(i) == \A t \in TaskIds : tasks[i][t].kind = "idle"

Next ==
  \/ \E s \in Registrable, a \in BOOLEAN : Serial(1) /\ RegisterStart(1, s, Url1, a)
  \/ \E t \in TaskIds : ConnectFinish(1, t)
  \/ \E t \in TaskIds : RegisterFinish(1, t)
  \/ \E s \in Registrable : Serial(1) /\ UnregisterStart(1, s)
  \/ \E t \in TaskIds : UnregisterFinish(1, t)
  \/ HealthTick(1)
  \/ \E s \in Names : HealthPing(1, s)
  \/ \E s \in Names : HealthClose(1, s)
  \/ \E s \in Names : HealthConnect(1, s)
  \/ \E s \in Registrable : PingServer(1, s)
  \/ \E s \in Registrable : UpstreamFlip(s)

Spec == Init /\ [][Next]_vars

(* ======================= claims: Connection Manager ======================= *)

\* no operation of instance i is in flight
Quiet(i) ==
  /\ \A t \in TaskIds : tasks[i][t].kind = "idle"
  /\ DOMAIN health[i] = {}
  /\ DOMAIN polls[i] = {}
  /\ recon[i].pc = "idle"

\* the connection object the map of instance i holds for s
Conn(i, s) == objs[i][conns[i][s]]

\* C1: for every connected upstream server, the tools whose original name is
\* stats or quote never appear in the aggregated tool list (getAllTools)
C1_ControlToolsFiltered ==
  \A s \in DOMAIN conns[1] :
    Conn(1, s).connected =>
      /\ AggregatedName(s, ToolStats) \notin getAllTools(1)
      /\ AggregatedName(s, ToolQuote) \notin getAllTools(1)

\* C7: whenever no operation is in progress, the tool names registered with
\* the downstream MCP server are exactly the aggregated tool names of the
\* currently connected connections
C7_CatalogMatchesConnections ==
  Quiet(1) => registered[1] = getAllTools(1)

\* a failed ping of the health loop is answered in this step for the connected
\* connection the map holds for s
HealthPingFails(i, s) ==
  /\ s \in DOMAIN health[i]
  /\ health[i][s].pc = "ping"
  /\ s \notin DOMAIN health'[i] \/ health'[i][s].pc # "ping"
  /\ s \in DOMAIN conns[i]
  /\ conns[i][s] = health[i][s].cid
  /\ Conn(i, s).connected
  /\ ~(up[s] /\ Conn(i, s).live)

\* what C9 says of a failed health-loop ping, for the threshold test `reached`
PingFailureEffect(i, s, reached(_)) ==
  LET before == Conn(i, s)
      after == objs'[i][conns[i][s]]
  IN /\ after.failures = before.failures + 1
     /\ ~after.connected <=> reached(after.failures)
     /\ ~after.connected =>
          /\ after.tools = {}
          /\ after.lastError = "ping"
          /\ after.errN = after.failures
          /\ eventQ'[i] = eventQ[i] + 1
     /\ after.connected =>
          /\ after.tools = before.tools
          /\ eventQ'[i] = eventQ[i]

AtThreshold(n) == n = maxConsecutivePingFailures
AtOrAboveThreshold(n) == n >= maxConsecutivePingFailures

C10_ReconnectsSixtySecondsApart ==
  \A s \in DOMAIN health[1] :
    health[1][s].pc = "close" =>
      health[1][s].gap = -1 \/ health[1][s].gap >= 60

\* connectToServer of task t ends in this step while the upstream is down
ConnectFails(i, t) ==
  /\ tasks[i][t].pc = "connect"
  /\ tasks'[i][t].pc # "connect"
  /\ ~up[tasks[i][t].name]

\* C11: connectToServer never raises: when the upstream connect fails, the
\* caller goes on and the map holds a connection for the name with
\* connected = false, lastError set and no tools
C11_FailedConnectLeavesDisconnectedEntry ==
  [][\A t \in TaskIds :
       ConnectFails(1, t) =>
         LET s == tasks[1][t].name
         IN /\ tasks'[1][t].pc = "tools"
            /\ s \in DOMAIN conns'[1]
            /\ ~objs'[1][conns'[1][s]].connected
            /\ objs'[1][conns'[1][s]].lastError = "connect"
            /\ objs'[1][conns'[1][s]].tools = {}
            /\ objs'[1][conns'[1][s]].toolsCount = 0]_vars

\* the map holds the entry a failed connect left
C11_Witness ==
  \E s \in DOMAIN conns[1] :
    /\ ~Conn(1, s).connected
    /\ Conn(1, s).lastError = "connect"
    /\ \A t \in TaskIds : tasks[1][t].kind = "idle"

\* listTools of the re-discovery in registerServer fails in this step for the
\* connected connection of task t
RediscoveryFails(i, t) ==
  /\ tasks[i][t].kind = "register"
  /\ tasks[i][t].pc = "tools"
  /\ tasks'[i][t].kind = "idle"
  /\ tasks[i][t].name \in DOMAIN conns[i]
  /\ Conn(i, tasks[i][t].name).connected
  /\ ~(up[tasks[i][t].name] /\ Conn(i, tasks[i][t].name).live)

\* C12: whenever listTools fails for a connected server, also at a later
\* re-discovery, the connection stays connected, its tool list is empty and
\* lastError is set
C12_FailedListingEmptiesTools ==
  [][\A t \in TaskIds :
       RediscoveryFails(1, t) =>
         LET after == objs'[1][conns'[1][tasks[1][t].name]]
         IN /\ after.connected
            /\ after.lastError # "none"
            /\ after.tools = {}]_vars

(* ======================= the reconnect-server command ======================= *)

NextReconnect ==
  \/ \E s \in Registrable, a \in BOOLEAN : Serial(1) /\ RegisterStart(1, s, Url1, a)
  \/ \E t \in TaskIds : ConnectFinish(1, t)
  \/ \E t \in TaskIds : RegisterFinish(1, t)
  \/ \E s \in Names : Serial(1) /\ ReconnectStart(1, s)
  \/ \E t \in TaskIds : ReconnectClose(1, t)
  \/ \E t \in TaskIds : ReconnectFinish(1, t)
  \/ HealthTick(1)
  \/ \E s \in Names : HealthPing(1, s)
  \/ \E s \in Names : HealthClose(1, s)
  \/ \E s \in Names : HealthConnect(1, s)
  \/ \E s \in Registrable : UpstreamFlip(s)

SpecReconnect == Init /\ [][NextReconnect]_vars

\* a reconnect of the command completes while the upstream does not answer
ReconnectFails(i, t) ==
  /\ tasks[i][t].kind = "reconnect"
  /\ tasks[i][t].pc = "reconnect"
  /\ tasks'[i][t].kind = "idle"
  /\ ~up[tasks[i][t].name]

\* a reconnect of the health loop completes while the upstream does not answer
HealthReconnectFails(i, s) ==
  /\ s \in DOMAIN health[i]
  /\ health[i][s].pc = "connect"
  /\ s \notin DOMAIN health'[i]
  /\ ~up[s]

\* the map holds a disconnected connection for s after the step
StaysDisconnected(i, s) ==
  /\ s \in DOMAIN conns'[i]
  /\ ~objs'[i][conns'[i][s]].connected

\* the health timer runs after the step and its next tick hands s to
\* reconnectToServer
RetriedNextCycle(i, s) ==
  /\ pingTimer'[i]
  /\ s \in needsReconnect(i)'

\* C13 (as stated): when a reconnect fails to connect, once it completes the
\* map still holds a connection for the name with connected = false, and the
\* next health cycle attempts the reconnect again
C13_FailedReconnectIsRetried ==
  [][/\ \A t \in TaskIds : ReconnectFails(1, t) =>
          /\ StaysDisconnected(1, tasks[1][t].name)
          /\ RetriedNextCycle(1, tasks[1][t].name)
     /\ \A s \in Names : HealthReconnectFails(1, s) =>
          /\ StaysDisconnected(1, s)
          /\ RetriedNextCycle(1, s)]_vars

\* C13 (amended): when a reconnect fails to connect, once it completes the map
\* still holds a connection for the name with connected = false; the next
\* health cycle attempts the reconnect again when the stored config does not
\* have autoReconnect false
C13_FailedReconnectIsRetriedIfAuto ==
  [][/\ \A t \in TaskIds : ReconnectFails(1, t) =>
          /\ StaysDisconnected(1, tasks[1][t].name)
          /\ tasks[1][t].auto => RetriedNextCycle(1, tasks[1][t].name)
     /\ \A s \in Names : HealthReconnectFails(1, s) =>
          /\ StaysDisconnected(1, s)
          /\ objs[1][health[1][s].cid].auto => RetriedNextCycle(1, s)]_vars

\* a reconnect-server command has failed to connect a server with
\* autoReconnect, which now waits for the next health cycle
C13_Witness ==
  /\ lastReconnect = "failed"
  /\ Serial(1)
  /\ SrvA \in needsReconnect(1)
  /\ Conn(1, SrvA).lastError = "connect"
  /\ pingTimer[1]

(* ======================= disconnectAll ======================= *)

NextShutdown ==
  \/ \E s \in Registrable, a \in BOOLEAN : Serial(1) /\ RegisterStart(1, s, Url1, a)
  \/ \E t \in TaskIds : ConnectFinish(1, t)
  \/ \E t \in TaskIds : RegisterFinish(1, t)
  \/ Serial(1) /\ DisconnectAllStart(1)
  \/ \E t \in TaskIds : DisconnectAllFinish(1, t)
  \/ HealthTick(1)
  \/ \E s \in Names : HealthPing(1, s)
  \/ \E s \in Names : HealthClose(1, s)
  \/ \E s \in Names : HealthConnect(1, s)
  \/ \E s \in Registrable : UpstreamFlip(s)

SpecShutdown == Init /\ [][NextShutdown]_vars

\* the map is empty, the health timer is stopped and no command is in flight
Stopped(i) ==
  /\ conns[i] = EmptyMap
  /\ ~pingTimer[i]
  /\ Serial(i)

\* C15: when disconnectAll returns the map is empty and the health timer is
\* stopped; from then on no reconnect is issued, and the map stays empty and
\* the timer stopped until a command connects a server
C15_StoppedAfterDisconnectAll ==
  [][/\ \A t \in TaskIds : DisconnectAllFinish(1, t) => Stopped(1)'
     /\ Stopped(1) =>
          /\ \A s \in Names : ~HealthClose(1, s)
          /\ Stopped(1)' \/ ~Serial(1)']_vars

(* ======================= tool calls through callTool ======================= *)

NextCall ==
  \/ \E s \in Registrable, a \in BOOLEAN : Serial(1) /\ RegisterStart(1, s, Url1, a)
  \/ \E t \in TaskIds : ConnectFinish(1, t)
  \/ \E t \in TaskIds : RegisterFinish(1, t)
  \/ \E n \in CallNames : CallToolStart(1, n)
  \/ \E t \in TaskIds : CallToolFinish(1, t)
  \/ \E s \in Registrable : UpstreamFlip(s)

SpecCall == Init /\ [][NextCall]_vars

\* C2: every call of callTool pushes exactly one audit record, on every return
\* path: success, upstream error, name without separator, unknown server,
\* disconnected server
C2_OneAuditRecordPerCall ==
  lastCall.path # "none" => lastCall.audits = 1

\* the server a namespaced tool name addresses
serverOf(toolName) ==
  SubSeq(toolName, 1, IndexOf(toolName, toolNameSeparator))

\* callTool is called for a server that is in the map and not connected
DisconnectedCall(i, toolName) ==
  /\ CallToolStart(i, toolName)
  /\ IndexOf(toolName, toolNameSeparator) # -1
  /\ serverOf(toolName) \in DOMAIN conns[i]
  /\ ~objs[i][conns[i][serverOf(toolName)]].connected

\* C14: a call for a known but disconnected server attempts one reconnect
\* before answering: it is answered "not connected" only when that reconnect
\* fails, so never while the upstream accepts connections
C14_DisconnectedOnlyAfterFailedReconnect ==
  [][\A n \in CallNames :
       DisconnectedCall(1, n) /\ lastCall'.path = "disconnected"
         => ~up[serverOf(n)]]_vars

(* ======================= concurrent registrations ======================= *)

NextRace ==
  \/ \E s \in Registrable, a \in BOOLEAN : RegisterStart(1, s, Url1, a)
  \/ \E t \in TaskIds : ConnectFinish(1, t)
  \/ \E t \in TaskIds : RegisterFinish(1, t)
  \/ \E s \in Registrable : UpstreamFlip(s)
  \/ \E s \in Registrable, l \in ToolLists : UpstreamRelist(s, l)

SpecRace == Init /\ [][NextRace]_vars

\* the connection objects of instance i for s whose transport is open
OpenTransports(i, s) ==
  {k \in DOMAIN objs[i] : objs[i][k].name = s /\ objs[i][k].live}

\* C8: two concurrent register/connect operations for one name serialize: the
\* second closes what the first installed, so at no time are two transports
\* open for that name
C8_OneOpenTransportPerName ==
  \A s \in Names : Cardinality(OpenTransports(1, s)) <= 1

(* ======================= SyncService (two instances) ======================= *)

\* unregisterToolsFromMcpServer: the prefix is `${serverName}-->`
unregisterToolsFromMcpServer(reg, serverName) ==
  {n \in reg : ~StartsWith(n, serverName \o <<"-", "-", ">">>)}

\* markEventProcessed: array_append(processed_by, instanceId)
markEventProcessed(evs, id, i) ==
  IF evs[id].deleted
    THEN evs
    ELSE [evs EXCEPT ![id].by = Append(@, i)]

ProcessedBy(e) == {e.by[k] : k \in DOMAIN e.by}

RECURSIVE UnprocessedFrom(_, _, _)
UnprocessedFrom(evs, i, k) ==
  IF k > Len(evs) THEN <<>>
  ELSE IF i \in ProcessedBy(evs[k]) \/ evs[k].deleted
    THEN UnprocessedFrom(evs, i, k + 1)
    ELSE <<k>> \o UnprocessedFrom(evs, i, k + 1)

\* SELECT * FROM sync_events WHERE NOT ($1 = ANY(processed_by))
\* ORDER BY created_at ASC: the ids of the rows
Unprocessed(evs, i) == UnprocessedFrom(evs, i, 1)

\* LIMIT 100 of the select
pollLimit == 100

\* the rows the select returns: the oldest pollLimit of the unprocessed ones
Selected(evs, i) ==
  LET u == Unprocessed(evs, i)
  IN SubSeq(u, 1, IF Len(u) < pollLimit THEN Len(u) ELSE pollLimit)

FreePoll(i) == CHOOSE p \in 1..MaxPolls :
  /\ p \notin DOMAIN polls[i]
  /\ \A q \in 1..MaxPolls : q < p => q \in DOMAIN polls[i]

\* the poll interval fires: processUnprocessedEvents selects its batch
PollStart(i) ==
  /\ syncOn[i]
  /\ Cardinality(DOMAIN polls[i]) < MaxPolls
  /\ Selected(events, i) # <<>>
  /\ polls' = [polls EXCEPT ![i] =
       MapSet(polls[i], FreePoll(i),
              [pc |-> "loop", batch |-> Selected(events, i), cid |-> 0])]
  /\ UNCHANGED <<envVars, storeVars, cmVars, auxVars, tasks, health, ops, histVars,
                 recon>>

\* the run goes on with the next row of its batch, or ends
Advance(i, p) ==
  IF Len(polls[i][p].batch) = 1
    THEN MapDelete(polls[i], p)
    ELSE [polls[i] EXCEPT ![p] =
            [pc |-> "loop", batch |-> Tail(polls[i][p].batch), cid |-> 0]]

\* one turn of the for loop up to its first await on the upstream: an own
\* event is marked; processEvent dispatches on the type of a foreign one
PollStep(i, p) ==
  /\ p \in DOMAIN polls[i]
  /\ polls[i][p].pc = "loop"
  /\ LET e == events[Head(polls[i][p].batch)]
         exists == e.name \in DOMAIN conns[i]
     IN IF e.pub = i
          THEN /\ events' = markEventProcessed(events, e.id, i)
               /\ polls' = [polls EXCEPT ![i] = Advance(i, p)]
               /\ UNCHANGED <<rows, registered, eventQ>>
          ELSE IF e.type \in {"SERVER_REGISTERED", "SERVER_UPDATED"}
            THEN \* handleServerRegistered
                 IF exists
                   THEN /\ polls' = [polls EXCEPT ![i] = Advance(i, p)]
                        /\ UNCHANGED <<rows, events, registered, eventQ>>
                   ELSE /\ rows' = upsert(rows, e.name, e.url, TRUE)
                        /\ polls' = [polls EXCEPT ![i][p].pc = "connect"]
                        /\ UNCHANGED <<events, registered, eventQ>>
            ELSE \* handleServerUnregistered
                 IF exists
                   THEN /\ registered' = [registered EXCEPT ![i] =
                             unregisterToolsFromMcpServer(@, e.name)]
                        /\ eventQ' = [eventQ EXCEPT ![i] = @ + 1]
                        /\ polls' = [polls EXCEPT ![i][p].pc = "close",
                                                  ![i][p].cid = conns[i][e.name]]
                        /\ UNCHANGED <<rows, events>>
                   ELSE /\ polls' = [polls EXCEPT ![i] = Advance(i, p)]
                        /\ UNCHANGED <<rows, events, registered, eventQ>>
  /\ UNCHANGED <<tasks, health, recon, conns>>
  /\ objs' = Heap(i, objs[i])
  /\ UNCHANGED <<envVars, cfg, pingTimer, auxVars, ops, auditQ, lastCall, lastTry,
                 applied>>

\* the tools registered after a connect by the SyncService: only for a
\* connected server whose buildServerTools lists at least one tool
registerIfConnected(reg, c) ==
  IF c.connected /\ c.tools # {} THEN registerToolsWithMcpServer(reg, c) ELSE reg

\* handleServerRegistered after connectToServer: tools registered, the handler
\* returns true and the event is marked
PollConnect(i, p) ==
  /\ p \in DOMAIN polls[i]
  /\ polls[i][p].pc = "connect"
  /\ LET e == events[Head(polls[i][p].batch)]
         id == FreshId(objs[i])
         c == connectToServer(e.name, e.url, e.auto)
     IN /\ conns' = [conns EXCEPT ![i] = MapSet(conns[i], e.name, id)]
        /\ polls' = [polls EXCEPT ![i] = Advance(i, p)]
        /\ registered' = [registered EXCEPT ![i] = registerIfConnected(@, c)]
        /\ applied' = [applied EXCEPT ![i] = Append(@, e.id)]
        /\ events' = markEventProcessed(events, e.id, i)
        /\ UNCHANGED <<tasks, health, recon>>
        /\ objs' = Heap(i, MapSet(objs[i], id, c))
  /\ pingTimer' = [pingTimer EXCEPT ![i] = TRUE]
  /\ UNCHANGED <<envVars, rows, cfg, auxVars, ops, auditQ, eventQ, lastCall, lastTry>>

\* handleServerUnregistered after transport.close: the connection is deleted,
\* the row disabled, the handler returns true and the event is marked
PollClose(i, p) ==
  /\ p \in DOMAIN polls[i]
  /\ polls[i][p].pc = "close"
  /\ LET e == events[Head(polls[i][p].batch)]
     IN /\ conns' = [conns EXCEPT ![i] = MapDelete(conns[i], e.name)]
        /\ polls' = [polls EXCEPT ![i] = Advance(i, p)]
        /\ rows' = setEnabled(rows, e.name, FALSE)
        /\ applied' = [applied EXCEPT ![i] = Append(@, e.id)]
        /\ events' = markEventProcessed(events, e.id, i)
        /\ UNCHANGED <<tasks, health, recon>>
        /\ objs' = Heap(i, closeTransport(objs[i], polls[i][p].cid))
  /\ UNCHANGED <<envVars, cfg, registered, pingTimer, auxVars, ops, auditQ, eventQ,
                 lastCall, lastTry>>

\* the reconciliation run goes on with the rows left, or ends
Rest(i, s) ==
  IF DOMAIN recon[i].todo = {s}
    THEN NoRecon
    ELSE [recon[i] EXCEPT !.pc = "loop", !.cid = 0,
                          !.todo = MapDelete(recon[i].todo, s)]

\* the reconciliation interval fires: syncExistingServers reads the enabled
\* rows and the statuses of the local connections
ReconStart(i) ==
  /\ syncOn[i]
  /\ recon[i].pc = "idle"
  /\ LET enabledRows == {s \in Names : rows[s].present /\ rows[s].enabled
                                          /\ ~rows[s].deleted}
     IN /\ enabledRows # {}
        /\ recon' = [recon EXCEPT ![i] =
             [NoRecon EXCEPT !.pc = "loop",
                             !.todo = [s \in enabledRows |-> rows[s].url],
                             !.known = [s \in DOMAIN conns[i] |->
                                          objs[i][conns[i][s]].connected]]]
  /\ UNCHANGED <<envVars, storeVars, cmVars, auxVars, tasks, health, ops, histVars,
                 polls>>

\* one turn of the for loop over the rows up to its first await on the upstream
ReconNext(i) ==
  /\ recon[i].pc = "loop"
  /\ \E s \in DOMAIN recon[i].todo :
       LET r == recon[i]
       IN IF s \notin DOMAIN r.known
            THEN \* not held locally: connectToServer persists the config
                 /\ rows' = upsert(rows, s, r.todo[s], TRUE)
                 /\ recon' = [recon EXCEPT ![i] =
                      [r EXCEPT !.pc = "connect", !.name = s, !.url = r.todo[s],
                                !.auto = TRUE]]
            ELSE IF ~r.known[s] /\ s \in DOMAIN conns[i]
              THEN \* held but disconnected: reconnectToServer
                   /\ recon' = [recon EXCEPT ![i] =
                        [r EXCEPT !.pc = "close", !.name = s,
                                  !.cid = conns[i][s]]]
                   /\ UNCHANGED rows
              ELSE \* connected, or reconnectToServer throws "not found"
                   /\ recon' = [recon EXCEPT ![i] = Rest(i, s)]
                   /\ UNCHANGED rows
  /\ UNCHANGED <<conns, tasks, health, polls>>
  /\ objs' = Heap(i, objs[i])
  /\ UNCHANGED <<envVars, events, cfg, registered, pingTimer, auxVars, ops, histVars>>

\* reconnectToServer of the run: the transport is closed, the connection
\* deleted and connectToServer persists its config
ReconClose(i) ==
  /\ recon[i].pc = "close"
  /\ LET r == recon[i]
         old == objs[i][r.cid]
     IN /\ conns' = [conns EXCEPT ![i] = MapDelete(conns[i], r.name)]
        /\ recon' = [recon EXCEPT ![i] =
             [r EXCEPT !.pc = "connect", !.cid = 0, !.url = old.url,
                       !.auto = old.auto]]
        /\ rows' = upsert(rows, r.name, old.url, TRUE)
        /\ UNCHANGED <<tasks, health, polls>>
        /\ objs' = Heap(i, closeTransport(objs[i], r.cid))
  /\ UNCHANGED <<envVars, events, cfg, registered, pingTimer, auxVars, ops, histVars>>

\* connectToServer of the run answers; the tools of a connected server are
\* registered downstream
ReconConnect(i) ==
  /\ recon[i].pc = "connect"
  /\ LET r == recon[i]
         id == FreshId(objs[i])
         c == connectToServer(r.name, r.url, r.auto)
     IN /\ conns' = [conns EXCEPT ![i] = MapSet(conns[i], r.name, id)]
        /\ recon' = [recon EXCEPT ![i] = Rest(i, r.name)]
        /\ registered' = [registered EXCEPT ![i] = registerIfConnected(@, c)]
        /\ UNCHANGED <<tasks, health, polls>>
        /\ objs' = Heap(i, MapSet(objs[i], id, c))
  /\ pingTimer' = [pingTimer EXCEPT ![i] = TRUE]
  /\ UNCHANGED <<envVars, storeVars, cfg, auxVars, ops, histVars>>

InitSync ==
  /\ up \in {f \in [Names -> BOOLEAN] : \A s \in Names \ Registrable : f[s]}
  /\ utools = [s \in Names |-> {ToolAdd}]
  /\ rows = [s \in Names |-> NoRow]
  /\ events = <<>>
  /\ conns = [i \in Instances |-> <<>>]
  /\ objs = [i \in Instances |-> <<>>]
  /\ cfg = [i \in Instances |-> [s \in Names |-> NoUrl]]
  /\ registered = [i \in Instances |-> {}]
  /\ pingTimer = [i \in Instances |-> FALSE]
  /\ syncOn = [i \in Instances |-> TRUE]
  /\ routing = NoRouting
  /\ upserted = NoReturn
  /\ writers = [l \in Loggers |-> EmptyBuffer]
  /\ lifecycle = Running
  /\ lastRegister = "none"
  /\ tasks = [i \in Instances |-> [t \in TaskIds |-> IdleTask]]
  /\ health = [i \in Instances |-> <<>>]
  /\ ops = 0
  /\ auditQ = [i \in Instances |-> 0]
  /\ eventQ = [i \in Instances |-> 0]
  /\ lastCall = NoCall
  /\ lastTry = [i \in Instances |-> [s \in Names |-> -1]]
  /\ polls = [i \in Instances |-> NoPoll]
  /\ recon = [i \in Instances |-> NoRecon]
  /\ applied = [i \in Instances |-> <<>>]
  /\ lastReconnect = "none"
  /\ RegistryEmpty
  /\ credit = NoCredit
  /\ separator = toolNameSeparator

\* the administrator sends the commands to instance 1, one at a time; an
\* upstream that is down at the start comes back and stays
NextSync ==
  \/ \E s \in Registrable :
       Serial(1) /\ ops < MaxSyncOps /\ RegisterStart(1, s, Url1, TRUE)
  \/ \E t \in TaskIds : ConnectFinish(1, t)
  \/ \E t \in TaskIds : RegisterFinish(1, t)
  \/ \E s \in Registrable :
       Serial(1) /\ ops < MaxSyncOps /\ UnregisterStart(1, s)
  \/ \E t \in TaskIds : UnregisterFinish(1, t)
  \/ \E i \in Instances : DOMAIN polls[i] = {} /\ PollStart(i)
  \/ \E i \in Instances, p \in 1..MaxPolls : PollStep(i, p)
  \/ \E i \in Instances, p \in 1..MaxPolls : PollConnect(i, p)
  \/ \E i \in Instances, p \in 1..MaxPolls : PollClose(i, p)
  \/ \E i \in Instances : ReconStart(i)
  \/ \E i \in Instances : ReconNext(i)
  \/ \E i \in Instances : ReconClose(i)
  \/ \E i \in Instances : ReconConnect(i)
  \/ \E s \in Registrable : ~up[s] /\ UpstreamFlip(s)

SpecSync == InitSync /\ [][NextSync]_vars

\* a poll tick can fire while earlier runs of the same instance still await
\* their upstream (setInterval does not wait for the async callback)
NextOverlap ==
  \/ \E s \in Registrable :
       Serial(1) /\ ops < MaxSyncOps /\ RegisterStart(1, s, Url1, TRUE)
  \/ \E t \in TaskIds : ConnectFinish(1, t)
  \/ \E t \in TaskIds : RegisterFinish(1, t)
  \/ \E s \in Registrable :
       Serial(1) /\ ops < MaxSyncOps /\ UnregisterStart(1, s)
  \/ \E t \in TaskIds : UnregisterFinish(1, t)
  \/ \E i \in Instances : PollStart(i)
  \/ \E i \in Instances, p \in 1..MaxPolls : PollStep(i, p)
  \/ \E i \in Instances, p \in 1..MaxPolls : PollConnect(i, p)
  \/ \E i \in Instances, p \in 1..MaxPolls : PollClose(i, p)

SpecOverlap == InitSync /\ [][NextOverlap]_vars

(* ======================= claims: SyncService ======================= *)

\* how many times instance j ran the side effect of event e
TimesApplied(j, e) == Cardinality({k \in DOMAIN applied[j] : applied[j][k] = e})

\* C3: a sync event published by one instance is applied (the connect or
\* disconnect of its handler is run) at most once by any other instance,
\* under any interleaving of that instance's poll ticks
C3_AppliedAtMostOnce ==
  \A j \in Instances : \A e \in DOMAIN events :
    events[e].pub # j => TimesApplied(j, e) <= 1

\* a poll of instance i would change nothing: every event it selects is a
\* foreign one whose handler returns false
PollIdle(i) ==
  \A k \in DOMAIN Unprocessed(events, i) :
    LET e == events[Unprocessed(events, i)[k]]
    IN /\ e.pub # i
       /\ IF e.type = "SERVER_UNREGISTERED"
            THEN e.name \notin DOMAIN conns[i]
            ELSE e.name \in DOMAIN conns[i]

\* a reconciliation pass of instance i would change nothing
ReconIdle(i) ==
  \A s \in Names :
    (rows[s].present /\ rows[s].enabled) =>
      s \in DOMAIN conns[i] /\ Conn(i, s).connected

\* the health loop of instance i would change nothing
HealthIdle(i) ==
  \A s \in DOMAIN conns[i] :
    Conn(i, s).connected /\ Conn(i, s).live /\ Conn(i, s).failures = 0

\* every upstream is reachable, nothing is in progress on any instance and no
\* timer of any instance has anything left to do: without a further command
\* the system stays in this state
Settled ==
  /\ \A s \in Names : up[s]
  /\ \A i \in Instances : Quiet(i) /\ PollIdle(i) /\ ReconIdle(i) /\ HealthIdle(i)

\* like Settled, but the timers may be in the middle of a run that has read
\* the present state
Calm ==
  /\ \A s \in Names : up[s]
  /\ \A i \in Instances :
       /\ \A t \in TaskIds : tasks[i][t].kind = "idle"
       /\ DOMAIN health[i] = {}
       /\ PollIdle(i) /\ ReconIdle(i) /\ HealthIdle(i)
       /\ \A p \in DOMAIN polls[i] :
            /\ polls[i][p].pc = "loop"
            /\ \A k \in DOMAIN polls[i][p].batch :
                 \E m \in DOMAIN Unprocessed(events, i) :
                   Unprocessed(events, i)[m] = polls[i][p].batch[k]
       /\ recon[i].pc \in {"idle", "loop"}
       /\ recon[i].pc = "loop" =>
            /\ \A s \in DOMAIN recon[i].todo : rows[s].present /\ rows[s].enabled
            /\ recon[i].known = [s \in DOMAIN conns[i] |-> Conn(i, s).connected]

\* a settled system stays as it is until the next command: the polls and
\* reconciliation passes that run from there change no connection, row, event
\* or registered tool
SettledIsCalm == Settled => Calm
CalmStays ==
  [][(Calm /\ ops' = ops) =>
       (Calm' /\ UNCHANGED <<conns, objs, rows, events, registered>>)]_vars

\* the latest event about the server of event e is e itself
Latest(e) ==
  \A k \in DOMAIN events : events[k].name = events[e].name => k <= e

\* C4: after register(s) succeeded on instance 1 (its REGISTERED event is the
\* latest about s), once the system has settled instance 2 holds a connected
\* connection for s and processed_by of the event holds both instances
C4_RegisteredReachesPeerAndIsAcked ==
  \A e \in DOMAIN events :
    (Settled /\ events[e].type = "SERVER_REGISTERED" /\ events[e].pub = 1 /\ Latest(e)) =>
      /\ events[e].name \in DOMAIN conns[2]
      /\ Conn(2, events[e].name).connected
      /\ {1, 2} \subseteq ProcessedBy(events[e])

\* C5: after the register and unregister commands have ended and with every
\* upstream reachable, once the system has settled all instances hold
\* connections for the same set of server names
C5_SettledInstancesAgree ==
  Settled => DOMAIN conns[1] = DOMAIN conns[2]

\* C6: no instance applies an UNREGISTERED event and afterwards a REGISTERED
\* or UPDATED event for the same name that the same publisher produced earlier
C6_RegisteredBeforeLaterUnregistered ==
  \A j \in Instances : \A a, b \in DOMAIN applied[j] :
    LET u == events[applied[j][a]]
        r == events[applied[j][b]]
    IN ~ /\ a < b
         /\ u.type = "SERVER_UNREGISTERED"
         /\ r.type \in {"SERVER_REGISTERED", "SERVER_UPDATED"}
         /\ r.name = u.name
         /\ r.pub = u.pub
         /\ r.id < u.id

(* ======================= Tool Registry (serverManagement) ======================= *)

\* values of TOOL_NAME_SEPARATOR: the default and a configured one
Separators == {toolNameSeparator, <<":">>}

\* the name loadServerTools gives a tool under the configured separator
namespaced(serverName, toolName) == serverName \o separator \o toolName

\* JSON input schemas of upstream tools: the names of their string properties
SchemaOne == <<"input">>
SchemaTwo == <<"input", "limit">>
Schemas == {SchemaOne, SchemaTwo}

\* jsonSchemaToZodShape: one zod type per property, in the order of the schema
jsonSchemaToZodShape(inputSchema) ==
  [k \in 1..Len(inputSchema) |-> <<inputSchema[k], "ZodString">>]

\* JSON.stringify of a zod shape: an object whose keys are the property names
stringifyShape(zodShape) ==
  <<"{">> \o [k \in 1..Len(zodShape) |-> zodShape[k][1]] \o <<"}">>

\* the _def of the z.object the McpServer wraps around a registered shape;
\* its shape member is a function
zodObjectDef(zodShape) == [typeName |-> "ZodObject", shape |-> zodShape]

\* JSON.stringify of such a _def: function-valued members are left out
stringifyDef(def) == <<"{", "typeName", def.typeName, "}">>

\* the comparison of registerToolsWithMcpServer
schemaChanged(existingTool, zodShape) ==
  stringifyDef(existingTool.def) # stringifyShape(zodShape)

\* toRegister without the fall through after the removal
toRegisterNewOnly(tools, existing, removed) == tools \ existing

\* the tools of a listing that reach server.registerTool: those not yet
\* registered, and those just removed because their schema changed
toRegister(tools, existing, removed) == (tools \ existing) \cup removed

\* registerToolsWithMcpServer after buildServerTools has answered with the
\* tools `listed` of a server, all carrying inputSchema; the loop has no await.
\* The handler and the RegisteredTool handle made by this call are numbered n.
RegisterTools(serverName, listed, inputSchema) ==
  /\ ops < MaxOps
  /\ ops' = ops + 1
  /\ LET n == ops + 1
         tools == {namespaced(serverName, t) : t \in listed}
         zodShape == jsonSchemaToZodShape(inputSchema)
         existing == tools \cap DOMAIN registeredTools
         removed == {t \in existing : schemaChanged(registeredTools[t], zodShape)}
         added == toRegister(tools, existing, removed)
         handle == [id |-> n, def |-> zodObjectDef(zodShape)]
     IN /\ toolHandlers' =
             [t \in DOMAIN toolHandlers \cup tools |->
                IF t \in tools THEN n ELSE toolHandlers[t]]
        /\ serverTools' =
             [t \in (DOMAIN serverTools \ removed) \cup added |->
                IF t \in added THEN handle ELSE serverTools[t]]
        /\ registeredTools' =
             [t \in (DOMAIN registeredTools \ removed) \cup added |->
                IF t \in added THEN handle ELSE registeredTools[t]]
        /\ listChanged' = listChanged + Cardinality(removed) + Cardinality(added)
        /\ lastResult' = [NoResult EXCEPT !.kind = "register",
                                          !.replaced = [t \in removed |-> registeredTools[t]]]
  /\ UNCHANGED <<envVars, storeVars, cmVars, syncOn, routing, upserted, writers, lifecycle, lastRegister, lastReconnect, credit, separator,
                 tasks, health, histVars, syncVars>>

\* unregisterToolsFromMcpServer: returns the names it removed
UnregisterTools(serverName) ==
  /\ ops < MaxOps
  /\ ops' = ops + 1
  /\ LET kept == unregisterToolsFromMcpServer(DOMAIN registeredTools, serverName)
         toolsToRemove == DOMAIN registeredTools \ kept
     IN /\ serverTools' = [t \in DOMAIN serverTools \ toolsToRemove |-> serverTools[t]]
        /\ registeredTools' = [t \in kept |-> registeredTools[t]]
        /\ toolHandlers' = [t \in DOMAIN toolHandlers \ toolsToRemove |-> toolHandlers[t]]
        /\ listChanged' = listChanged + Cardinality(toolsToRemove)
        /\ lastResult' = [NoResult EXCEPT !.kind = "unregister",
                                          !.removed = toolsToRemove]
  /\ UNCHANGED <<envVars, storeVars, cmVars, syncOn, routing, upserted, writers, lifecycle, lastRegister, lastReconnect, credit, separator,
                 tasks, health, histVars, syncVars>>

\* upstream answers: JSON objects of at most MaxMembers members, in the
\* structured result of at most MaxStructuredMembers, or a text that is not JSON
MaxMembers == 2
MaxStructuredMembers == 1

MetricsKeys == {"models_metrics", "modelsMetrics"}
JsonKeys == {"data"} \cup MetricsKeys
JsonValues == {"null", "{}"}

JsonTexts(maxLen) ==
  {[json |-> TRUE, members |-> m] :
     m \in UNION {{f \in [1..n -> JsonKeys \X JsonValues] :
                     \A j, k \in 1..n : f[j][1] = f[k][1] => j = k} :
                  n \in 0..maxLen}}

\* property access on a parsed JSON object
member(members, key) ==
  IF \E k \in 1..Len(members) : members[k][1] = key
    THEN (members[CHOOSE k \in 1..Len(members) : members[k][1] = key])[2]
    ELSE "undefined"

\* the truthiness test of `if (x)` on a JSON value
truthy(value) == value \notin {"undefined", "null", "false", "0", "\"\""}

IsKept(m) == m[1] \notin MetricsKeys

\* the cleanup of the wrapped handler on one text: JSON.parse, the test
\* `models_metrics || modelsMetrics`, the two deletes, JSON.stringify
cleanup(text) ==
  IF ~text.json
    THEN text
    ELSE IF truthy(member(text.members, "models_metrics"))
            \/ truthy(member(text.members, "modelsMetrics"))
      THEN [text EXCEPT !.members = SelectSeq(text.members, IsKept)]
      ELSE text

\* a downstream client calls a registered tool: the wrapper looks the current
\* handler up, awaits it and cleans content[0].text and structuredContent.result
InvokeTool(name, text, structured) ==
  /\ ops < MaxOps
  /\ ops' = ops + 1
  /\ name \in DOMAIN serverTools
  /\ lastResult' =
       IF name \notin DOMAIN toolHandlers
         THEN [NoResult EXCEPT !.kind = "error"]
         ELSE [NoResult EXCEPT !.kind = "invoke",
                               !.handler = toolHandlers[name],
                               !.text = cleanup(text),
                               !.structured = cleanup(structured)]
  /\ UNCHANGED <<envVars, storeVars, cmVars, syncOn, routing, upserted, writers, lifecycle, lastRegister, lastReconnect, credit, registeredTools,
                 toolHandlers, serverTools, listChanged, separator, tasks, health,
                 histVars, syncVars>>

InitRegistry ==
  /\ up = [s \in Names |-> TRUE]
  /\ utools = [s \in Names |-> {ToolAdd}]
  /\ rows = [s \in Names |-> NoRow]
  /\ events = <<>>
  /\ conns = [i \in Instances |-> <<>>]
  /\ objs = [i \in Instances |-> <<>>]
  /\ cfg = [i \in Instances |-> [s \in Names |-> NoUrl]]
  /\ registered = [i \in Instances |-> {}]
  /\ pingTimer = [i \in Instances |-> FALSE]
  /\ syncOn = [i \in Instances |-> FALSE]
  /\ routing = NoRouting
  /\ upserted = NoReturn
  /\ writers = [l \in Loggers |-> EmptyBuffer]
  /\ lifecycle = Running
  /\ lastRegister = "none"
  /\ tasks = [i \in Instances |-> [t \in TaskIds |-> IdleTask]]
  /\ health = [i \in Instances |-> <<>>]
  /\ ops = 0
  /\ auditQ = [i \in Instances |-> 0]
  /\ eventQ = [i \in Instances |-> 0]
  /\ lastCall = NoCall
  /\ lastTry = [i \in Instances |-> [s \in Names |-> -1]]
  /\ polls = [i \in Instances |-> NoPoll]
  /\ recon = [i \in Instances |-> NoRecon]
  /\ applied = [i \in Instances |-> <<>>]
  /\ lastReconnect = "none"
  /\ RegistryEmpty
  /\ credit = NoCredit
  /\ separator \in Separators

\* what buildServerTools answers for a server
ListedTools == {{ToolAdd}, {ToolAdd, ToolQuote}}

NextRegistry ==
  \/ \E s \in Names, listed \in ListedTools, schema \in Schemas :
       RegisterTools(s, listed, schema)
  \/ \E s \in Names : UnregisterTools(s)
  \/ \E name \in DOMAIN serverTools,
        text \in JsonTexts(MaxMembers) \cup {NoText},
        structured \in JsonTexts(MaxStructuredMembers) \cup {NoText} :
       InvokeTool(name, text, structured)

SpecRegistry == InitRegistry /\ [][NextRegistry]_vars

(* ======================= claims: Tool Registry ======================= *)

\* tool t is registered downstream with the shape this input schema gives
Unchanged(t, schema) ==
  /\ t \in DOMAIN serverTools
  /\ serverTools[t].def.shape = jsonSchemaToZodShape(schema)

\* C16: when a tool is registered again with an unchanged input schema its
\* downstream registration is kept (same handle: not removed, not registered
\* anew), only its handler is replaced, and a listing in which every tool is
\* unchanged sends no listChanged notification
C16_SameSchemaKeepsRegistration ==
  [][\A s \in Names, listed \in ListedTools, schema \in Schemas :
       RegisterTools(s, listed, schema) =>
         LET tools == {namespaced(s, x) : x \in listed}
             same == {t \in tools : Unchanged(t, schema)}
         IN /\ \A t \in same :
                 /\ serverTools'[t] = serverTools[t]
                 /\ registeredTools'[t] = registeredTools[t]
                 /\ toolHandlers'[t] = ops'
            /\ same = tools => listChanged' = listChanged]_vars

\* registerToolsWithMcpServer runs with a listing that holds tool t, already
\* registered with another shape than this input schema gives
ReRegistersChanged(t, schema) ==
  /\ t \in DOMAIN serverTools
  /\ serverTools[t].def.shape # jsonSchemaToZodShape(schema)
  /\ \E s \in Names, listed \in ListedTools :
       /\ t \in {namespaced(s, x) : x \in listed}
       /\ RegisterTools(s, listed, schema)

\* C17: re-registering a tool with a changed input schema replaces its
\* registration within one step: the state before holds the old registration,
\* the state after holds one registration of the tool, a new handle with the
\* new schema, in the downstream catalog and in registeredTools; no state in
\* between lacks the tool
C17_ChangedSchemaReplacedInOneStep ==
  [][\A schema \in Schemas, t \in DOMAIN serverTools :
       ReRegistersChanged(t, schema) =>
         /\ t \in DOMAIN serverTools'
         /\ serverTools'[t] = [id |-> ops', def |-> zodObjectDef(jsonSchemaToZodShape(schema))]
         /\ t \in DOMAIN registeredTools'
         /\ registeredTools'[t] = serverTools'[t]
         /\ toolHandlers'[t] = ops']_vars

\* a tool has just been re-registered with another schema than it had
C17_Witness ==
  /\ lastResult.kind = "register"
  /\ \E t \in DOMAIN lastResult.replaced :
       /\ t \in DOMAIN serverTools
       /\ lastResult.replaced[t].def.shape # serverTools[t].def.shape
       /\ lastResult.replaced[t].id < serverTools[t].id

\* the registered tools of a server under the configured separator
toolsOf(serverName) ==
  {t \in DOMAIN registeredTools : StartsWith(t, serverName \o separator)}

\* C18: unregisterToolsFromMcpServer(serverName) removes from the downstream
\* catalog and from both maps every registered tool whose name begins with
\* serverName followed by the configured separator, removes no other tool, and
\* returns exactly the removed names, whatever separator is configured
C18_RemovesToolsOfServerOnly ==
  [][\A s \in Names :
       UnregisterTools(s) =>
         /\ DOMAIN serverTools' = DOMAIN serverTools \ toolsOf(s)
         /\ DOMAIN registeredTools' = DOMAIN registeredTools \ toolsOf(s)
         /\ DOMAIN toolHandlers' = DOMAIN toolHandlers \ toolsOf(s)
         /\ lastResult'.removed = toolsOf(s)]_vars

\* the keys of a text that parses as a JSON object
keysOf(text) ==
  IF text.json THEN {text.members[k][1] : k \in 1..Len(text.members)} ELSE {}

\* C19: a result returned by a re-exported tool carries no top-level
\* models_metrics or modelsMetrics key, neither in the JSON of content[0].text
\* nor in that of structuredContent.result, whatever value the key held
C19_MetricsKeysNeverReturned ==
  lastResult.kind = "invoke" =>
    /\ keysOf(lastResult.text) \cap MetricsKeys = {}
    /\ keysOf(lastResult.structured) \cap MetricsKeys = {}

(* ======================= Credit Gate (CreditManager) ======================= *)

\* remaining quota values the user-management service answers with
Remaining == {0, 50, 100}

\* a number inside a template literal
ToStr(n) == CASE n = 0 -> "0" [] n = 50 -> "50" [] n = 100 -> "100"

Contains(message, part) == \E k \in 1..Len(message) : message[k] = part

\* CreditManager.shouldBypassCreditCheck
shouldBypassCreditCheck(toolName, hasKey) ==
  IF toolName = ToolQuote THEN TRUE ELSE ~hasKey

\* verifySufficientCredits that lets a denied check pass
verifySufficientCreditsNeverThrows(creditCheck) ==
  [throws |-> FALSE, message |-> <<>>]

\* CreditManager.verifySufficientCredits once checkCredits has answered
verifySufficientCredits(creditCheck) ==
  IF ~creditCheck.allowed
    THEN [throws |-> TRUE,
          message |-> <<"Insufficient credits. Daily remaining: ",
                        ToStr(creditCheck.remainingDaily),
                        ", Monthly remaining: ",
                        ToStr(creditCheck.remainingMonthly)>>]
    ELSE [throws |-> FALSE, message |-> <<>>]

\* the run ends by raising
raise(run, message) ==
  [run EXCEPT !.pc = "done", !.outcome = "error", !.message = message]

\* callToolFn is called for the actual tool
callActualTool(run) ==
  [run EXCEPT !.pc = "call", !.toolCalls = @ + 1]

\* executeWithCreditCheck up to its first await
CreditStart(toolName, hasKey, hasQuoteTool) ==
  /\ ops < MaxOps
  /\ ops' = ops + 1
  /\ credit.pc \in {"idle", "done"}
  /\ LET run == [NoCredit EXCEPT !.hasKey = hasKey, !.hasQuoteTool = hasQuoteTool,
                                  !.bypass = shouldBypassCreditCheck(toolName, hasKey)]
     IN credit' =
          IF run.bypass
            THEN callActualTool([run EXCEPT !.mode = "bypass"])
            ELSE IF ~hasQuoteTool
              THEN [run EXCEPT !.pc = "validate", !.mode = "validated"]
              ELSE [run EXCEPT !.pc = "quote", !.quoteCalls = 1]
  /\ UNCHANGED <<envVars, storeVars, cmVars, syncOn, routing, upserted, writers, lifecycle, lastRegister, lastReconnect, regVars, tasks,
                 health, histVars, syncVars>>

\* the quote tool answers: with an estimated cost the full pipeline starts with
\* POST /usage/quota, otherwise the API key is validated
QuoteAnswer(quote) ==
  /\ credit.pc = "quote"
  /\ credit' =
       IF quote = "estimated_cost"
         THEN [credit EXCEPT !.pc = "quota", !.mode = "full", !.quote = quote,
                             !.quotaChecks = @ + 1]
         ELSE [credit EXCEPT !.pc = "validate", !.mode = "validated",
                             !.quote = quote]
  /\ UNCHANGED <<envVars, storeVars, cmVars, syncOn, routing, upserted, writers, lifecycle, lastRegister, lastReconnect, regVars, tasks,
                 health, ops, histVars, syncVars>>

\* validateApiKey that takes a failed request for a valid key
validateApiKeyUnlessInvalid(answer) == answer # "invalid"

\* CreditManager.validateApiKey: true only for an ok response with valid: true
validateApiKey(answer) == answer = "valid"

\* POST /validate answers (valid or invalid) or the request fails
ValidateAnswer(answer) ==
  /\ credit.pc = "validate"
  /\ credit' =
       IF validateApiKey(answer)
         THEN callActualTool([credit EXCEPT !.validated = answer])
         ELSE raise([credit EXCEPT !.validated = answer], <<"Invalid API key">>)
  /\ UNCHANGED <<envVars, storeVars, cmVars, syncOn, routing, upserted, writers, lifecycle, lastRegister, lastReconnect, regVars, tasks,
                 health, ops, histVars, syncVars>>

\* POST /usage/quota answers: checkCredits raises on a response that is not ok,
\* verifySufficientCredits raises on allowed = false, else the tool is called
QuotaAnswer(ok, allowed, daily, monthly) ==
  /\ credit.pc = "quota"
  /\ LET creditCheck == [answered |-> TRUE, allowed |-> allowed,
                         remainingDaily |-> daily, remainingMonthly |-> monthly]
         verdict == verifySufficientCredits(creditCheck)
     IN credit' =
          IF ~ok
            THEN raise([credit EXCEPT !.quotaFailed = TRUE], <<"Credit check failed">>)
            ELSE IF verdict.throws
              THEN raise([credit EXCEPT !.quota = creditCheck], verdict.message)
              ELSE callActualTool([credit EXCEPT !.quota = creditCheck])
  /\ UNCHANGED <<envVars, storeVars, cmVars, syncOn, routing, upserted, writers, lifecycle, lastRegister, lastReconnect, regVars, tasks,
                 health, ops, histVars, syncVars>>

\* callToolFn for the actual tool settles: it raises, or it returns the
\* upstream's result, or the error result the tool handler builds when the
\* upstream call failed; after a return the full pipeline posts /usage/track
\* with success: true
ToolAnswer(answer) ==
  /\ credit.pc = "call"
  /\ credit' =
       IF answer = "raised"
         THEN raise([credit EXCEPT !.toolResult = answer], <<"tool error">>)
         ELSE IF credit.mode = "full"
           THEN [credit EXCEPT !.pc = "track", !.toolResult = answer,
                               !.tracks = @ + 1, !.trackSuccess = TRUE]
           ELSE [credit EXCEPT !.pc = "done", !.toolResult = answer,
                               !.outcome = answer]
  /\ UNCHANGED <<envVars, storeVars, cmVars, syncOn, routing, upserted, writers, lifecycle, lastRegister, lastReconnect, regVars, tasks,
                 health, ops, histVars, syncVars>>

\* the pipeline if a failed track request were raised to the caller
trackSettledRaises(run, ok) ==
  IF ok THEN [run EXCEPT !.pc = "done", !.outcome = run.toolResult]
        ELSE raise(run, <<"Usage tracking failed">>)

\* executeWithFullCreditCheck after trackUsage has returned: the result of
\* trackUsage is not looked at and the tool's result is returned
trackSettled(run, ok) ==
  [run EXCEPT !.pc = "done", !.outcome = run.toolResult]

\* POST /usage/track answers ok, or not ok, or the request fails: trackUsage
\* returns either way and the pipeline returns the tool's result
TrackAnswer(ok) ==
  /\ credit.pc = "track"
  /\ credit' = trackSettled([credit EXCEPT !.trackFailed = ~ok], ok)
  /\ UNCHANGED <<envVars, storeVars, cmVars, syncOn, routing, upserted, writers, lifecycle, lastRegister, lastReconnect, regVars, tasks,
                 health, ops, histVars, syncVars>>

\* how callToolFn for the actual tool can settle
ToolAnswers == {"result", "error_result", "raised"}

QuoteAnswers == {"estimated_cost", "no_cost", "error"}

\* how POST /validate can settle
ValidateAnswers == {"valid", "invalid", "failed"}

InitCredit == InitRegistry /\ separator = toolNameSeparator

NextCredit ==
  \/ \E toolName \in {ToolAdd, ToolQuote}, hasKey \in BOOLEAN, hasQuoteTool \in BOOLEAN :
       CreditStart(toolName, hasKey, hasQuoteTool)
  \/ \E quote \in QuoteAnswers : QuoteAnswer(quote)
  \/ \E answer \in ValidateAnswers : ValidateAnswer(answer)
  \/ \E ok \in BOOLEAN, allowed \in BOOLEAN, daily \in Remaining, monthly \in Remaining :
       QuotaAnswer(ok, allowed, daily, monthly)
  \/ \E answer \in ToolAnswers : ToolAnswer(answer)
  \/ \E ok \in BOOLEAN : TrackAnswer(ok)

SpecCredit == InitCredit /\ [][NextCredit]_vars

\* the quota check of the run answered allowed = false
Denied == credit.quota.answered /\ ~credit.quota.allowed

\* C20: in the full credit pipeline, once the quota check has answered
\* allowed = false the actual tool is not called, no /usage/track request is
\* made, and the run ends with an error whose message holds the remaining
\* daily and the remaining monthly value
C20_DeniedRunCallsNothing ==
  Denied =>
    /\ credit.mode = "full"
    /\ credit.toolCalls = 0
    /\ credit.tracks = 0
    /\ credit.pc = "done"
    /\ credit.outcome = "error"
    /\ credit.message[2] = ToStr(credit.quota.remainingDaily)
    /\ credit.message[4] = ToStr(credit.quota.remainingMonthly)
    /\ Contains(credit.message, "Insufficient credits. Daily remaining: ")

\* a run was refused with daily quota used up and monthly quota left
C20_Witness ==
  /\ Denied
  /\ credit.pc = "done"
  /\ credit.quoteCalls = 1
  /\ credit.quota.remainingDaily = 0
  /\ credit.quota.remainingMonthly = 50
  /\ credit.message = <<"Insufficient credits. Daily remaining: ", "0",
                        ", Monthly remaining: ", "50">>

\* the actual tool call of the run failed: it raised or returned an error result
ToolFailed == credit.toolResult \in {"raised", "error_result"}

\* C21: when the upstream tool call fails after the quota check has passed, no
\* /usage/track request with success = true is sent for that call
C21_NoSuccessTrackAfterFailedCall ==
  (credit.mode = "full" /\ ToolFailed) => ~(credit.tracks > 0 /\ credit.trackSuccess)

\* the run has an API key in context and the upstream has a quote tool
Gated == credit.hasKey /\ credit.hasQuoteTool /\ ~credit.bypass

\* C22: with an API key and a quote tool, when the quote invocation fails or
\* the quota request fails, the actual tool is not forwarded and the call
\* fails to the caller
C22_QuoteOrQuotaFailureFailsCall ==
  (Gated /\ (credit.quote \in {"no_cost", "error"} \/ credit.quotaFailed)) =>
    /\ credit.toolCalls = 0
    /\ credit.pc = "done" => credit.outcome = "error"

\* the run has an API key in context and the upstream has no quote tool
KeyOnly == credit.hasKey /\ ~credit.hasQuoteTool /\ ~credit.bypass

\* C23: with an API key and no quote tool the actual tool is forwarded only
\* after a successful validation; an invalid key or a failed validation
\* request ends the run with "Invalid API key" and no upstream call; no quote
\* call, quota check or track request is made
C23_KeyOnlyForwardsAfterValidation ==
  KeyOnly =>
    /\ credit.toolCalls > 0 => credit.validated = "valid"
    /\ credit.validated \in {"invalid", "failed"} =>
         /\ credit.toolCalls = 0
         /\ credit.pc = "done"
         /\ credit.outcome = "error"
         /\ credit.message = <<"Invalid API key">>
    /\ credit.quoteCalls = 0
    /\ credit.quotaChecks = 0
    /\ credit.tracks = 0

\* validation failed for a run without quote tool, and the run was refused
C23_Witness ==
  /\ KeyOnly
  /\ credit.validated = "failed"
  /\ credit.message = <<"Invalid API key">>

\* C24: in the full pipeline, when the /usage/track request fails after a
\* successful upstream call, the caller receives the upstream's result and no
\* error is raised
C24_TrackFailureReturnsResult ==
  (credit.mode = "full" /\ credit.trackFailed) =>
    /\ credit.pc = "done"
    /\ credit.outcome = credit.toolResult
    /\ credit.outcome # "error"

\* a track request failed after the upstream had answered with a result
C24_Witness ==
  /\ credit.mode = "full"
  /\ credit.trackFailed
  /\ credit.toolResult = "result"
  /\ credit.outcome = "result"

(* ======================= register on a peer instance ======================= *)

\* both instances take register commands, with either URL, and apply each
\* other's events
NextPeer ==
  \/ \E i \in Instances, s \in Registrable, u \in Urls :
       Serial(i) /\ ops < MaxSyncOps /\ RegisterStart(i, s, u, TRUE)
  \/ \E i \in Instances, t \in TaskIds : ConnectFinish(i, t)
  \/ \E i \in Instances, t \in TaskIds : RegisterFinish(i, t)
  \/ \E i \in Instances : DOMAIN polls[i] = {} /\ PollStart(i)
  \/ \E i \in Instances, p \in 1..MaxPolls : PollStep(i, p)
  \/ \E i \in Instances, p \in 1..MaxPolls : PollConnect(i, p)

SpecPeer == InitSync /\ [][NextPeer]_vars

\* register(s, u) arrives at instance i, whose map holds a connection for s
RegisterOver(i, s, u) ==
  /\ s \in DOMAIN conns[i]
  /\ \E a \in BOOLEAN : RegisterStart(i, s, u, a)

\* the command was answered at once: no connect was issued, the stored config
\* and the repository row were not written
AnsweredAtOnce ==
  /\ tasks' = tasks
  /\ cfg' = cfg
  /\ rows' = rows

\* C25: register is rejected with a Name/URL conflict whenever the instance
\* holds a connection of that name with another URL, however the connection
\* came to exist; the connection and its URL stay as they are
C25_OtherUrlIsRejected ==
  [][\A i \in Instances, s \in Registrable, u \in Urls :
       (RegisterOver(i, s, u) /\ objs[i][conns[i][s]].url # u) => AnsweredAtOnce]_vars

\* C26: register with the name and URL of a server that is connected is a
\* no-op for the Connection Manager, however the connection came to exist: no
\* connect is issued and the connection object stays
C26_SameUrlConnectedIsNoOp ==
  [][\A i \in Instances, s \in Registrable, u \in Urls :
       (RegisterOver(i, s, u) /\ objs[i][conns[i][s]].url = u
          /\ objs[i][conns[i][s]].connected) => AnsweredAtOnce]_vars

(* =================== register, unregister, register =================== *)

\* the administrator registers a server, unregisters it and registers it
\* again with the same config, one command after the other, while the health
\* loop runs; the upstream is as it was when the first command arrived
NextCycle ==
  \/ \E s \in Registrable : ops = 0 /\ UpstreamFlip(s)
  \/ \E s \in Registrable, u \in Urls :
       /\ Serial(1)
       /\ ops \in {0, 2}
       /\ rows[s].present => u = rows[s].url
       /\ RegisterStart(1, s, u, TRUE)
  \/ \E t \in TaskIds : ConnectFinish(1, t)
  \/ \E t \in TaskIds : RegisterFinish(1, t)
  \/ \E s \in Registrable : Serial(1) /\ ops = 1 /\ UnregisterStart(1, s)
  \/ \E t \in TaskIds : UnregisterFinish(1, t)
  \/ HealthTick(1)
  \/ \E s \in Names : HealthPing(1, s)
  \/ \E s \in Names : HealthClose(1, s)
  \/ \E s \in Names : HealthConnect(1, s)

SpecCycle == Init /\ [][NextCycle]_vars

\* the live state of server s at instance i: its entry of the connection map,
\* the downstream tool catalog and its repository row
LiveState(i, s) ==
  [inMap |-> s \in DOMAIN conns[i],
   connected |-> s \in DOMAIN conns[i] /\ Conn(i, s).connected,
   url |-> IF s \in DOMAIN conns[i] THEN Conn(i, s).url ELSE NoUrl,
   tools |-> IF s \in DOMAIN conns[i] THEN Conn(i, s).tools ELSE {},
   catalog |-> registered[i],
   row |-> rows[s]]

\* the live state a single register(s, u) leaves at an instance that held
\* nothing
afterOneRegister(s, u) ==
  LET c == loadServerTools(connectToServer(s, u, TRUE), up[s], utools[s])
  IN [inMap |-> TRUE,
      connected |-> c.connected,
      url |-> u,
      tools |-> c.tools,
      catalog |-> IF c.connected THEN registerToolsWithMcpServer({}, c) ELSE {},
      row |-> upsert([n \in Names |-> NoRow], s, u, TRUE)[s]]

\* the three commands have been answered and nothing is in flight
CycleDone == ops = 3 /\ Quiet(1)

RegisterConnectFails(i, t) ==
  /\ tasks[i][t].kind = "register"
  /\ tasks[i][t].pc = "connect"
  /\ tasks'[i][t].pc = "tools"
  /\ ~up[tasks[i][t].name]

\* a register command answers while the map holds a disconnected connection
\* for its server
RegisterAnswersDisconnected(i, t) ==
  /\ tasks[i][t].kind = "register"
  /\ tasks[i][t].pc = "tools"
  /\ tasks'[i][t].kind = "idle"
  /\ tasks[i][t].name \in DOMAIN conns[i]
  /\ ~Conn(i, tasks[i][t].name).connected

\* the health cycle that starts with this step calls reconnectToServer for s
ReconnectAttempted(i, s) ==
  /\ s \in DOMAIN health'[i]
  /\ health'[i][s].pc = "close"

\* C28: when client.connect fails during register, a connection with
\* connected = false is stored for the name, register answers success, and
\* a health cycle that finds the connection disconnected calls
\* reconnectToServer for it unless its autoReconnect is false
C28_FailedConnectRegistersAndRetries ==
  [][/\ \A t \in TaskIds : RegisterConnectFails(1, t) =>
          /\ StaysDisconnected(1, tasks[1][t].name)
          /\ pingTimer'[1]
     /\ \A t \in TaskIds : RegisterAnswersDisconnected(1, t) =>
          /\ lastRegister' = "success"
          /\ StaysDisconnected(1, tasks[1][t].name)
     /\ HealthTick(1) =>
          \A s \in DOMAIN conns[1] :
            (~Conn(1, s).connected /\ Conn(1, s).auto) => ReconnectAttempted(1, s)]_vars

\* register has answered success for a server whose connect failed, and the
\* health cycle after it has called reconnectToServer
C28_Witness ==
  /\ lastRegister = "success"
  /\ Serial(1)
  /\ SrvA \in DOMAIN conns[1]
  /\ ~Conn(1, SrvA).connected
  /\ Conn(1, SrvA).lastError = "connect"
  /\ SrvA \in DOMAIN health[1]
  /\ health[1][SrvA].pc = "close"
  /\ ops = 1

(* ======================= gracefulShutdown ======================= *)

\* SIGINT or SIGTERM arrives: gracefulShutdown calls disconnectAll, which
\* clears the ping interval and calls close on every transport of the map
ShutdownStart ==
  /\ lifecycle.pc = "running"
  /\ HasFree(1)
  /\ lifecycle' = [lifecycle EXCEPT !.pc = "disconnectAll"]
  /\ pingTimer' = [pingTimer EXCEPT ![1] = FALSE]
  /\ tasks' = [tasks EXCEPT ![1][FreeSlot(1)] =
       [IdleTask EXCEPT !.kind = "disconnectAll", !.pc = "clear"]]
  /\ UNCHANGED <<conns, health, syncVars>>
  /\ objs' = Heap(1, closeAll(objs[1], conns[1]))
  /\ UNCHANGED <<envVars, storeVars, cfg, registered, syncOn, routing, upserted, writers, lastReconnect, regVars,
                 credit, lastRegister, ops, histVars>>

\* disconnectAll returns; syncService.stop() clears the three intervals and
\* eventLogger.shutdown() starts its flush
ShutdownDisconnected(t) ==
  /\ lifecycle.pc = "disconnectAll"
  /\ tasks[1][t].kind = "disconnectAll"
  /\ lifecycle' = [lifecycle EXCEPT !.pc = "flushEvents",
                                    !.pollInterval = FALSE,
                                    !.dbSyncInterval = FALSE,
                                    !.cleanupInterval = FALSE]
  /\ conns' = [conns EXCEPT ![1] = EmptyMap]
  /\ tasks' = [tasks EXCEPT ![1][t] = IdleTask]
  /\ UNCHANGED <<health, syncVars>>
  /\ objs' = Heap(1, objs[1])
  /\ UNCHANGED <<envVars, storeVars, cfg, registered, pingTimer, syncOn, routing, upserted, writers, lastReconnect,
                 regVars, credit, lastRegister, ops, histVars>>

\* the flush of the event buffer has settled; auditLogger.shutdown() starts
\* its flush
ShutdownEventsFlushed ==
  /\ lifecycle.pc = "flushEvents"
  /\ lifecycle' = [lifecycle EXCEPT !.pc = "flushAudit"]
  /\ eventQ' = [eventQ EXCEPT ![1] = 0]
  /\ UNCHANGED <<envVars, storeVars, cmVars, syncOn, routing, upserted, writers, lastReconnect, regVars, credit,
                 lastRegister, tasks, health, ops, auditQ, lastCall, lastTry,
                 applied, syncVars>>

\* the flush of the audit buffer has settled; database.disconnect() is called
ShutdownAuditFlushed ==
  /\ lifecycle.pc = "flushAudit"
  /\ lifecycle' = [lifecycle EXCEPT !.pc = "closeStore"]
  /\ auditQ' = [auditQ EXCEPT ![1] = 0]
  /\ UNCHANGED <<envVars, storeVars, cmVars, syncOn, routing, upserted, writers, lastReconnect, regVars, credit,
                 lastRegister, tasks, health, ops, eventQ, lastCall, lastTry,
                 applied, syncVars>>

\* database.disconnect() has returned; process.exit(0)
ShutdownStoreClosed ==
  /\ lifecycle.pc = "closeStore"
  /\ lifecycle' = [lifecycle EXCEPT !.pc = "exited", !.storeOpen = FALSE]
  /\ UNCHANGED <<envVars, storeVars, cmVars, syncOn, routing, upserted, writers, lastReconnect, regVars, credit,
                 lastRegister, tasks, health, ops, histVars, syncVars>>

\* the upstreams answer throughout
InitGraceful == InitSync /\ \A s \in Names : up[s]

\* instance 1 takes register commands until the signal arrives; its health
\* timer and its event poll fire while they are armed
NextGraceful ==
  \/ \E s \in Registrable, u \in Urls, a \in BOOLEAN :
       /\ Serial(1)
       /\ ops < MaxSyncOps
       /\ lifecycle.pc = "running"
       /\ RegisterStart(1, s, u, a)
  \/ \E t \in TaskIds : ConnectFinish(1, t)
  \/ \E t \in TaskIds : RegisterFinish(1, t)
  \/ HealthTick(1)
  \/ \E s \in Names : HealthPing(1, s)
  \/ lifecycle.pollInterval /\ DOMAIN polls[1] = {} /\ PollStart(1)
  \/ \E p \in 1..MaxPolls : PollStep(1, p)
  \/ ShutdownStart
  \/ \E t \in TaskIds : ShutdownDisconnected(t)
  \/ ShutdownEventsFlushed
  \/ ShutdownAuditFlushed
  \/ ShutdownStoreClosed

SpecGraceful == InitGraceful /\ [][NextGraceful]_vars

\* the four pollers of instance 1 are stopped
PollersStopped ==
  /\ ~pingTimer[1]
  /\ ~lifecycle.pollInterval
  /\ ~lifecycle.dbSyncInterval
  /\ ~lifecycle.cleanupInterval

\* no connection object of instance 1 holds an open transport
TransportsClosed == \A k \in DOMAIN objs[1] : ~objs[1][k].live

\* C29: on graceful shutdown every poller (event poll, reconciliation,
\* cleanup, health timer) is stopped before any transport is closed, all
\* transports are closed before the buffers are flushed, and the buffers are
\* flushed before the store is closed
C29_ShutdownOrder ==
  /\ (lifecycle.pc # "running" /\ \E k \in DOMAIN objs[1] : ~objs[1][k].live)
       => PollersStopped
  /\ lifecycle.pc \in {"flushAudit", "closeStore", "exited"} => TransportsClosed
  /\ ~lifecycle.storeOpen => (eventQ[1] = 0 /\ auditQ[1] = 0)

(* ================= the buffered writers (AuditLogger, EventLogger) ================= *)

MaxRecords == 4
MaxFlights == 2

\* the batchSize option of each logger (defaults 20 and 10)
auditBatchSize == 3
eventBatchSize == 2
batchSize(l) == IF l = "audit" THEN auditBatchSize ELSE eventBatchSize

\* the records of a sequence
Range(q) == {q[k] : k \in 1..Len(q)}

FreeFlight(b) == CHOOSE f \in 1..MaxFlights : f \notin DOMAIN b.flights

\* a flush() that leaves the handle of the timeout in batchTimer
flushKeepsTimer(b) ==
  IF b.batchQueue = <<>>
    THEN b
    ELSE [b EXCEPT !.pending = FALSE,
                   !.batchQueue = <<>>,
                   !.flights = MapSet(b.flights, FreeFlight(b), b.batchQueue)]

\* flush() up to the await of database.transaction: nothing to do on an empty
\* queue; else the timer is cleared, the queue is copied and emptied
flush(b) ==
  IF b.batchQueue = <<>>
    THEN b
    ELSE [b EXCEPT !.batchTimer = FALSE,
                   !.pending = FALSE,
                   !.batchQueue = <<>>,
                   !.flights = MapSet(b.flights, FreeFlight(b), b.batchQueue)]

\* scheduleBatchFlush: a timeout is set unless batchTimer holds a handle
scheduleBatchFlush(b) ==
  IF b.batchTimer
    THEN b
    ELSE [b EXCEPT !.batchTimer = TRUE, !.pending = TRUE]

\* logToolCall / logEvent: the record is pushed; a full queue is flushed, else
\* scheduleBatchFlush arms the timer unless it is armed
LogRecord(l) ==
  /\ writers[l].last < MaxRecords
  /\ Cardinality(DOMAIN writers[l].flights) < MaxFlights
  /\ LET b == writers[l]
         pushed == [b EXCEPT !.last = b.last + 1,
                             !.batchQueue = Append(b.batchQueue, b.last + 1)]
     IN writers' = [writers EXCEPT ![l] =
          IF Len(pushed.batchQueue) >= batchSize(l)
            THEN flush(pushed)
            ELSE scheduleBatchFlush(pushed)]
  /\ UNCHANGED <<envVars, storeVars, cmVars, syncOn, routing, upserted, lifecycle, lastRegister,
                 lastReconnect, regVars, credit, tasks, health, ops, histVars,
                 syncVars>>

\* the batch timer fires and calls flush()
TimerFires(l) ==
  /\ writers[l].pending
  /\ Cardinality(DOMAIN writers[l].flights) < MaxFlights
  /\ writers' = [writers EXCEPT ![l] = flush([writers[l] EXCEPT !.pending = FALSE])]
  /\ UNCHANGED <<envVars, storeVars, cmVars, syncOn, routing, upserted, lifecycle, lastRegister,
                 lastReconnect, regVars, credit, tasks, health, ops, histVars,
                 syncVars>>

\* a flush whose catch branch puts the batch back in front of the queue
flushSettledRequeues(b, f, ok) ==
  IF ok
    THEN [b EXCEPT !.flights = MapDelete(b.flights, f),
                   !.stored = @ \cup Range(b.flights[f])]
    ELSE [b EXCEPT !.flights = MapDelete(b.flights, f),
                   !.batchQueue = b.flights[f] \o @]

\* the transaction of flight f settles: committed, the batch is in the table;
\* failed, the catch branch logs the error and flush returns
flushSettled(b, f, ok) ==
  IF ok
    THEN [b EXCEPT !.flights = MapDelete(b.flights, f),
                   !.stored = @ \cup Range(b.flights[f])]
    ELSE [b EXCEPT !.flights = MapDelete(b.flights, f),
                   !.dropped = @ \cup Range(b.flights[f])]

FlushSettles(l, f, ok) ==
  /\ f \in DOMAIN writers[l].flights
  /\ writers' = [writers EXCEPT ![l] = flushSettled(writers[l], f, ok)]
  /\ UNCHANGED <<envVars, storeVars, cmVars, syncOn, routing, upserted, lifecycle, lastRegister,
                 lastReconnect, regVars, credit, tasks, health, ops, histVars,
                 syncVars>>

\* shutdown(): the timeout is cleared and flush() is called
WriterShutdown(l) ==
  /\ Cardinality(DOMAIN writers[l].flights) < MaxFlights
  /\ writers' = [writers EXCEPT ![l] =
       flush([writers[l] EXCEPT !.batchTimer = FALSE, !.pending = FALSE])]
  /\ UNCHANGED <<envVars, storeVars, cmVars, syncOn, routing, upserted, lifecycle, lastRegister,
                 lastReconnect, regVars, credit, tasks, health, ops, histVars,
                 syncVars>>

NextWriters ==
  \/ \E l \in Loggers : LogRecord(l)
  \/ \E l \in Loggers : TimerFires(l)
  \/ \E l \in Loggers, f \in 1..MaxFlights, ok \in BOOLEAN : FlushSettles(l, f, ok)
  \/ \E l \in Loggers : WriterShutdown(l)

SpecWriters == Init /\ [][NextWriters]_vars

\* the records a logger still holds: queued or in a flush in flight
Held(b) ==
  Range(b.batchQueue) \cup UNION {Range(b.flights[f]) : f \in DOMAIN b.flights}

\* C30: when the transaction of a flush fails, no exception reaches the
\* caller of the logger, the records of the batch are neither queued again
\* nor flushed again, the queue and the other flushes in flight are as they
\* were; and the queue never holds batchSize records or more
C30_FailedFlushDropsBatch ==
  [][/\ \A l \in Loggers, f \in 1..MaxFlights : FlushSettles(l, f, FALSE) =>
          /\ ~writers'[l].raised
          /\ Range(writers[l].flights[f]) \cap Held(writers'[l]) = {}
          /\ writers'[l].batchQueue = writers[l].batchQueue
          /\ \A g \in DOMAIN writers[l].flights \ {f} :
               /\ g \in DOMAIN writers'[l].flights
               /\ writers'[l].flights[g] = writers[l].flights[g]
     /\ \A l \in Loggers :
          /\ writers'[l].dropped \cap (Held(writers'[l]) \cup writers'[l].stored) = {}
          /\ Len(writers'[l].batchQueue) < batchSize(l)]_vars

\* a flush of the audit logger has failed, and a record logged after that
\* flush began is queued
C30_Witness ==
  /\ writers["audit"].dropped # {}
  /\ writers["audit"].batchQueue # <<>>
  /\ \A r \in writers["audit"].dropped : r < Head(writers["audit"].batchQueue)
  /\ writers["audit"].flights = <<>>

\* the number of places that hold record r of a logger: the queue, each flush
\* in flight, the table, the batches lost
Holders(b, r) ==
  Cardinality({k \in 1..Len(b.batchQueue) : b.batchQueue[k] = r})
    + Cardinality({f \in DOMAIN b.flights : r \in Range(b.flights[f])})
    + (IF r \in b.stored THEN 1 ELSE 0)
    + (IF r \in b.dropped THEN 1 ELSE 0)

\* C31: every record logged is in the queue or has been handed to exactly one
\* flush transaction, never to two; and while records are queued a timeout
\* that will flush them is pending, also for records logged while another
\* flush is in flight
C31_EachRecordFlushedOnce ==
  \A l \in Loggers :
    /\ \A r \in 1..writers[l].last : Holders(writers[l], r) = 1
    /\ writers[l].batchQueue # <<>> => writers[l].pending

\* a flush of the audit logger is in flight, an earlier one has committed,
\* and a record logged meanwhile waits for the timeout
C31_Witness ==
  /\ writers["audit"].flights # <<>>
  /\ writers["audit"].stored # {}
  /\ writers["audit"].batchQueue # <<>>
  /\ writers["audit"].pending

(* ======================= cleanup of sync events ======================= *)

\* the eventRetentionHours option (default 24)
eventRetentionHours == 1

\* `INTERVAL '5 minutes'` of the second DELETE
processedGraceMinutes == 5

\* the steps in which time passes, in minutes
TimeSteps == {3, 30}

\* ages are told apart up to the retention period and one step beyond
MaxAge == 60 * eventRetentionHours + 3

\* age is NOW() - created_at, in minutes; a deleted row stays in the
\* sequence as a mark, so that ids stay positions
Pass(d) ==
  /\ \E k \in 1..Len(events) : ~events[k].deleted /\ events[k].age < MaxAge
  /\ events' = [k \in 1..Len(events) |->
       [events[k] EXCEPT !.age = IF @ + d > MaxAge THEN MaxAge ELSE @ + d]]
  /\ UNCHANGED <<envVars, rows, cmVars, auxVars, tasks, health, ops, histVars,
                 syncVars>>

\* the rows the two DELETE statements of cleanupOldEvents remove
cleanupOldEvents(evs) ==
  [k \in 1..Len(evs) |->
     IF \/ evs[k].age > 60 * eventRetentionHours
        \/ evs[k].age > processedGraceMinutes /\ evs[k].by # <<>>
       THEN [evs[k] EXCEPT !.deleted = TRUE]
       ELSE evs[k]]

\* the cleanup interval of instance i fires
Cleanup(i) ==
  /\ syncOn[i]
  /\ \E k \in 1..Len(events) : ~events[k].deleted
  /\ events' = cleanupOldEvents(events)
  /\ UNCHANGED <<envVars, rows, cmVars, auxVars, tasks, health, ops, histVars,
                 syncVars>>

\* instance 1 registers servers, both instances poll, time passes and the
\* cleanup runs
NextCleanup ==
  \/ \E s \in Registrable, u \in Urls :
       Serial(1) /\ ops < MaxSyncOps /\ RegisterStart(1, s, u, TRUE)
  \/ \E t \in TaskIds : ConnectFinish(1, t)
  \/ \E t \in TaskIds : RegisterFinish(1, t)
  \/ \E i \in Instances : DOMAIN polls[i] = {} /\ PollStart(i)
  \/ \E i \in Instances, p \in 1..MaxPolls : PollStep(i, p)
  \/ \E i \in Instances, p \in 1..MaxPolls : PollConnect(i, p)
  \/ \E d \in TimeSteps : Pass(d)
  \/ \E i \in Instances : Cleanup(i)

SpecCleanup == InitSync /\ [][NextCleanup]_vars

\* C32: a run of the cleanup deletes exactly the events older than
\* eventRetentionHours; no younger event is deleted
C32_CleanupDeletesOldEventsOnly ==
  [][\A i \in Instances : Cleanup(i) =>
       \A k \in 1..Len(events) :
         ~events[k].deleted =>
           (events'[k].deleted <=> events[k].age > 60 * eventRetentionHours)]_vars

(* ======================= register with enabled false ======================= *)

\* POST /register takes enabled from the body
NextDisabled ==
  \/ \E s \in Registrable, u \in Urls, a \in BOOLEAN, e \in BOOLEAN :
       Serial(1) /\ RegisterConfigStart(1, s, u, a, e)
  \/ \E t \in TaskIds : ConnectFinish(1, t)
  \/ \E t \in TaskIds : RegisterFinish(1, t)
  \/ \E s \in Registrable : UpstreamFlip(s)

SpecDisabled == Init /\ [][NextDisabled]_vars

\* C33: a server whose stored config has enabled = false has no connected
\* connection, and no client.connect is in flight for it
C33_DisabledNeverConnected ==
  \A s \in Names :
    (rows[s].present /\ ~rows[s].enabled) =>
      /\ s \in DOMAIN conns[1] => ~Conn(1, s).connected
      /\ \A t \in TaskIds : ~(tasks[1][t].pc = "connect" /\ tasks[1][t].name = s)

(* ======================= the server repository ======================= *)

MaxRowIds == 4

\* a caller upserts a config; RETURNING * hands the stored row back
Upsert(name, url, enabled) ==
  /\ rows[name].present \/ newRowId(rows) <= MaxRowIds
  /\ rows' = upsert(rows, name, url, enabled)
  /\ upserted' = [name |-> name, before |-> rows[name], row |-> rows'[name]]
  /\ UNCHANGED <<envVars, events, cmVars, syncOn, routing, lifecycle, writers, lastRegister,
                 lastReconnect, regVars, credit, tasks, health, ops, histVars,
                 syncVars>>

SoftDelete(name) ==
  /\ rows[name].present
  /\ ~rows[name].deleted
  /\ rows' = softDelete(rows, name)
  /\ UNCHANGED <<envVars, events, cmVars, auxVars, tasks, health, ops, histVars,
                 syncVars>>

HardDelete(name) ==
  /\ rows[name].present
  /\ rows' = hardDelete(rows, name)
  /\ UNCHANGED <<envVars, events, cmVars, auxVars, tasks, health, ops, histVars,
                 syncVars>>

SetEnabled(name, enabled) ==
  /\ rows[name].present
  /\ rows[name].enabled # enabled
  /\ rows' = setEnabled(rows, name, enabled)
  /\ UNCHANGED <<envVars, events, cmVars, auxVars, tasks, health, ops, histVars,
                 syncVars>>

NextRepository ==
  \/ \E s \in Names, u \in Urls, e \in BOOLEAN : Upsert(s, u, e)
  \/ \E s \in Names : SoftDelete(s)
  \/ \E s \in Names : HardDelete(s)
  \/ \E s \in Names, e \in BOOLEAN : SetEnabled(s, e)

SpecRepository == Init /\ [][NextRepository]_vars

\* the ids of the rows of the table
RowIds(rws) == {rws[s].id : s \in {n \in Names : rws[n].present}}

\* C34: upsert of a name that has a row, soft-deleted or not, updates that
\* row in place: same id, deleted_at cleared, and the returned row is that
\* row; upsert of a name without a row inserts a row whose id no row has;
\* either way every other row stays as it is and no two rows share an id
C34_UpsertKeepsOneRowPerName ==
  [][\A s \in Names, u \in Urls, e \in BOOLEAN : Upsert(s, u, e) =>
       /\ rows'[s].present
       /\ ~rows'[s].deleted
       /\ rows'[s].url = u
       /\ rows'[s].enabled = e
       /\ upserted'.row = rows'[s]
       /\ IF rows[s].present
            THEN rows'[s].id = rows[s].id
            ELSE rows'[s].id \notin RowIds(rows)
       /\ \A n \in Names \ {s} : rows'[n] = rows[n]
       /\ Cardinality(RowIds(rows')) = Cardinality({n \in Names : rows'[n].present})]_vars

\* an upsert has found a soft-deleted row and returned it with its id
C34_Witness ==
  /\ upserted.before.present
  /\ upserted.before.deleted
  /\ upserted.row.id = upserted.before.id
  /\ ~upserted.row.deleted
  /\ rows[upserted.name] = upserted.row

(* ======================= routing of aggregated names ======================= *)

\* values of TOOL_NAME_SEPARATOR: the default and two configured ones
RouteSeparators == {toolNameSeparator, <<"-">>, <<"-", "-">>}

\* server names registerServer admits (letters, digits, hyphens, underscores)
RouteServers == {<<"a">>, <<"a", "-">>, <<"a", "-", "b">>, <<"b">>}

\* original tool names of the upstreams
RouteTools == {<<"t">>, <<"-", "t">>, <<"b", "-", "t">>, <<"-", "-", ">", "t">>}

\* `${serverId}${this.toolNameSeparator}${tool.name}` of loadServerTools
aggregatedName(sep, serverId, toolName) == serverId \o sep \o toolName

\* callTool that cuts the tool name one character after the separator starts
routeCallKeepsSeparator(sep, servers, toolName) ==
  LET separatorIndex == IndexOf(toolName, sep)
      serverName == SubSeq(toolName, 1, separatorIndex)
      actualToolName == SubSeq(toolName, separatorIndex + 2, Len(toolName))
  IN IF separatorIndex = -1 \/ serverName \notin servers
       THEN [found |-> FALSE, server |-> <<>>, tool |-> <<>>]
       ELSE [found |-> TRUE, server |-> serverName, tool |-> actualToolName]

\* callTool up to client.callTool: the name is split at the first occurrence
\* of the separator and the connection of the first part is looked up
routeCall(sep, servers, toolName) ==
  LET separatorIndex == IndexOf(toolName, sep)
      serverName == SubSeq(toolName, 1, separatorIndex)
      actualToolName == SubSeq(toolName, separatorIndex + Len(sep) + 1, Len(toolName))
  IN IF separatorIndex = -1 \/ serverName \notin servers
       THEN [found |-> FALSE, server |-> <<>>, tool |-> <<>>]
       ELSE [found |-> TRUE, server |-> serverName, tool |-> actualToolName]

\* a ClientManager is built with a separator and connects some servers, each
\* of which lists the tools
Configure(sep, servers, tools) ==
  /\ routing = NoRouting
  /\ servers # {}
  /\ tools # {}
  /\ routing' = [NoRouting EXCEPT !.separator = sep, !.servers = servers,
                                  !.tools = tools]
  /\ UNCHANGED <<envVars, storeVars, cmVars, syncOn, upserted, lifecycle, writers,
                 lastRegister, lastReconnect, regVars, credit, tasks, health, ops,
                 histVars, syncVars>>

\* callTool with the aggregated name of tool t of connected server S
Route(S, t) ==
  /\ routing.separator # <<>>
  /\ S \in routing.servers
  /\ t \in routing.tools
  /\ LET toolName == aggregatedName(routing.separator, S, t)
         r == routeCall(routing.separator, routing.servers, toolName)
     IN routing' = [routing EXCEPT !.toolName = toolName, !.from = S, !.orig = t,
                                   !.found = r.found, !.server = r.server,
                                   !.tool = r.tool]
  /\ UNCHANGED <<envVars, storeVars, cmVars, syncOn, upserted, lifecycle, writers,
                 lastRegister, lastReconnect, regVars, credit, tasks, health, ops,
                 histVars, syncVars>>

NextRouting ==
  \/ \E sep \in RouteSeparators, servers \in SUBSET RouteServers,
        tools \in SUBSET RouteTools : Configure(sep, servers, tools)
  \/ \E S \in RouteServers, t \in RouteTools : Route(S, t)

SpecRouting == Init /\ [][NextRouting]_vars

\* the separator is not a substring of any original tool name
SeparatorFree == \A t \in routing.tools : IndexOf(t, routing.separator) = -1

\* C35: when the separator is not a substring of any original tool name,
\* callTool with the aggregated name of tool t of connected server S calls t
\* on the client of S and on no other, and two (server, tool) pairs never
\* have the same aggregated name
C35_AggregatedNameRoutesToItsServer ==
  SeparatorFree =>
    /\ routing.toolName # <<>> =>
         /\ routing.found
         /\ routing.server = routing.from
         /\ routing.tool = routing.orig
    /\ \A S1 \in routing.servers, S2 \in routing.servers,
          t1 \in routing.tools, t2 \in routing.tools :
            <<S1, t1>> # <<S2, t2>> =>
              aggregatedName(routing.separator, S1, t1)
                # aggregatedName(routing.separator, S2, t2)

\* some character of the separator occurs in no name of a connected server
SeparatorOutsideServerNames ==
  \E c \in Range(routing.separator) :
    \A S \in routing.servers : c \notin Range(S)

\* C35 (amended): when the separator is not a substring of any original tool
\* name and has a character that no connected server's name has, callTool
\* with the aggregated name of tool t of connected server S calls t on the
\* client of S and on no other, and two (server, tool) pairs never have the
\* same aggregated name
C35_RoutesWhenSeparatorOutsideServerNames ==
  (SeparatorFree /\ SeparatorOutsideServerNames) =>
    /\ routing.toolName # <<>> =>
         /\ routing.found
         /\ routing.server = routing.from
         /\ routing.tool = routing.orig
    /\ \A S1 \in routing.servers, S2 \in routing.servers,
          t1 \in routing.tools, t2 \in routing.tools :
            <<S1, t1>> # <<S2, t2>> =>
              aggregatedName(routing.separator, S1, t1)
                # aggregatedName(routing.separator, S2, t2)

\* a tool of a server whose name has a hyphen was called through the default
\* separator, next to a server whose name is a prefix of it
C35_Witness ==
  /\ SeparatorFree
  /\ SeparatorOutsideServerNames
  /\ routing.separator = toolNameSeparator
  /\ routing.from = <<"a", "-", "b">>
  /\ <<"a">> \in routing.servers
  /\ routing.orig = <<"b", "-", "t">>
  /\ routing.found

(* ======================= calls while a server reconnects ======================= *)

\* the tool calls addressed to a server
CallsOf(s) == {n \in CallNames : IndexOf(n, toolNameSeparator) # -1 /\ serverOf(n) = s}

NextPresent ==
  \/ \E s \in Registrable : Serial(1) /\ RegisterStart(1, s, Url1, TRUE)
  \/ \E t \in TaskIds : ConnectFinish(1, t)
  \/ \E t \in TaskIds : RegisterFinish(1, t)
  \/ \E s \in Registrable : Serial(1) /\ ReconnectStart(1, s)
  \/ \E t \in TaskIds : ReconnectClose(1, t)
  \/ \E t \in TaskIds : ReconnectFinish(1, t)
  \/ HealthTick(1)
  \/ \E s \in Names : HealthPing(1, s)
  \/ \E s \in Names : HealthClose(1, s)
  \/ \E s \in Names : HealthConnect(1, s)
  \/ \E n \in CallsOf(SrvA) : CallToolStart(1, n)
  \/ \E t \in TaskIds : CallToolFinish(1, t)
  \/ \E s \in Registrable : UpstreamFlip(s)

\* no unregister and no disconnect is ever requested in this specification
SpecPresent == Init /\ [][NextPresent]_vars

\* registerServer has answered with success for the one registrable name
RegisteredOnce == lastRegister = "success"

\* C36: from the registration of a name on, with no unregister and no
\* disconnect requested, the name is in the connection map at every step, a
\* reconnect in progress included, and neither a concurrent callTool nor a
\* concurrent reconnect answers that the server is not there
C36_RegisteredNameStaysInMap ==
  [][/\ RegisteredOnce' => SrvA \in DOMAIN conns'[1]
     /\ \A n \in CallsOf(SrvA) :
          RegisteredOnce /\ CallToolStart(1, n) => lastCall'.path # "unknown_server"
     /\ RegisteredOnce /\ ReconnectStart(1, SrvA) => lastReconnect' # "not_found"]_vars

(* ======================= disconnect while a reconnect is in flight ======================= *)

\* a reconnectToServer of s is between its start and its return, called by
\* the reconnect-server command or by the health loop
Reconnecting(i, s) ==
  \/ \E t \in TaskIds : tasks[i][t].kind = "reconnect" /\ tasks[i][t].name = s
  \/ s \in DOMAIN health[i] /\ health[i][s].pc \in {"close", "connect"}

\* the schedules with one registration, then one reconnect-server command,
\* then one disconnect (unregister of a server in the map, or disconnectAll)
\* that is requested and returns while a reconnect of the server is in flight
NextDisconnectRace ==
  \/ ops = 0 /\ RegisterStart(1, SrvA, Url1, TRUE)
  \/ \E t \in TaskIds : ConnectFinish(1, t)
  \/ \E t \in TaskIds : RegisterFinish(1, t)
  \/ ops = 1 /\ Serial(1) /\ ReconnectStart(1, SrvA)
  \/ \E t \in TaskIds : ReconnectClose(1, t)
  \/ \E t \in TaskIds : ReconnectFinish(1, t)
  \/ HealthTick(1)
  \/ \E s \in Names : HealthPing(1, s)
  \/ \E s \in Names : HealthClose(1, s)
  \/ \E s \in Names : HealthConnect(1, s)
  \/ ops = 2 /\ Reconnecting(1, SrvA) /\ SrvA \in DOMAIN conns[1] /\ UnregisterStart(1, SrvA)
  \/ \E t \in TaskIds : Reconnecting(1, SrvA) /\ UnregisterFinish(1, t)
  \/ ops = 2 /\ Reconnecting(1, SrvA) /\ DisconnectAllStart(1)
  \/ \E t \in TaskIds : Reconnecting(1, SrvA) /\ DisconnectAllFinish(1, t)
  \/ UpstreamFlip(SrvA)

SpecDisconnectRace == Init /\ [][NextDisconnectRace]_vars

\* the disconnect, which returned while a reconnect was in flight, and every
\* reconnect have finished
BothFinished == ops = 3 /\ Quiet(1)

\* C37: when a disconnect of a name or disconnectAll returns while a reconnect
\* of the same name (health loop or command) is in flight, then once both
\* have finished the name is not in the connection map and no transport for
\* it is open
C37_DisconnectOutlastsReconnect ==
  BothFinished =>
    /\ SrvA \notin DOMAIN conns[1]
    /\ OpenTransports(1, SrvA) = {}

(* ======================= after unregister ======================= *)

\* instance i has registered s and then unregistered it: unregisterServer has
\* returned and no registerServer of s has started since
Unregistered(i, s) ==
  /\ cfg[i][s] = NoUrl
  /\ rows[s].present
  /\ \A t \in TaskIds : tasks[i][t].kind \notin {"register", "unregister"}

\* the row of s is disabled and no instance has a connection for s
DisabledEverywhere(s) ==
  /\ ~rows[s].enabled
  /\ \A i \in Instances : s \notin DOMAIN conns[i]

\* C38: once unregister(s) has returned on instance 1, and as long as no
\* register(s) follows, nothing enables the row of s again and no instance
\* that has no connection for s gets one: neither the health loop, nor the
\* handling of sync events, nor a reconciliation pass; and when every
\* instance has come to rest the row is disabled and no instance has a
\* connection for s
C38_UnregisteredStaysDisabled ==
  [][(Unregistered(1, SrvA) /\ Unregistered(1, SrvA)') =>
       /\ ~rows[SrvA].enabled => ~rows'[SrvA].enabled
       /\ \A i \in Instances :
            SrvA \notin DOMAIN conns[i] => SrvA \notin DOMAIN conns'[i]
       /\ Settled' => DisabledEverywhere(SrvA)']_vars

(* ======================= acknowledgement of sync events ======================= *)

\* instance i has appended itself to processed_by of event e
Acknowledged(i, e) == i \in ProcessedBy(events[e])

\* C39: every sync event published by another instance is acknowledged by
\* each running instance in the end, whatever the state of the server on that
\* instance when it handles the event: when every instance has come to rest,
\* no event of another instance is left unacknowledged
C39_ForeignEventsAcknowledged ==
  Settled =>
    \A i \in Instances, e \in DOMAIN events :
      (syncOn[i] /\ events[e].pub # i /\ ~events[e].deleted) => Acknowledged(i, e)

(* ======================= the tool count of the status ======================= *)

\* C40: whenever no operation is in progress, the toolsCount of the status of
\* every connection of the map is the number of tools of its tool list, also
\* after the health loop has marked the server disconnected and after a
\* failed re-discovery
C40_ToolsCountIsNumberOfTools ==
  Quiet(1) =>
    \A s \in DOMAIN conns[1] :
      Conn(1, s).toolsCount = Cardinality(Conn(1, s).tools)

====
